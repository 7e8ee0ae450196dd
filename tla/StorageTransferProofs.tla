----------------------- MODULE StorageTransferProofs -----------------------
(***************************************************************************)
(* Theorems about StorageTransfer: its state is typed; a copy that the     *)
(* remote changed under never comes to the path of the model, whatever the *)
(* threads, the calls, the remote and the crashes do; what an AVAILABLE    *)
(* row names is on the disk as long as no two calls overlap; and an upload *)
(* that compares hashes is COMPLETED only if the remote was whole while it *)
(* ran.                                                                    *)
(***************************************************************************)
EXTENDS StorageTransfer, TLAPS

(***************************************************************************)
(* The inductive invariant.  The remote's version only grows (NoFile is    *)
(* the greatest), so that a version which was the entry before the copy    *)
(* and is still the remote's after it was the remote's all along.          *)
(***************************************************************************)

\* an attempt begins only while there are attempts left
Tries ==
    \A w \in Workers :
        worker[w].pc \in {"begin", "get", "fetch"} => worker[w].attempt < Attempts

\* A worker whose record is r, while the remote's version is d: the entry it
\* found, and the version its rclone began to read, are not newer; a torn part
\* is of an entry that is no longer the remote's; what was compared is whole.
GoodRecord(r, d) ==
    /\ r.pc \in {"get", "fetch", "fetching", "compare"} => r.entry <= d
    /\ r.pc = "fetching" => r.entry <= r.source /\ r.source <= d
    /\ r.pc = "compare" /\ r.part = Torn => r.entry < d
    /\ r.pc \in {"keep", "replace", "commit"} => r.part # Torn

GoodWorkers == \A w \in Workers : GoodRecord(worker[w], drive)

VerifierIsWhole == verifier.sha # Torn

IInv ==
    TypeOK /\ Tries /\ GoodWorkers /\ VerifierIsWhole /\ DestinationWhole

-----------------------------------------------------------------------------
(* the shapes of the state *)

\* The content of a file is a number, and a version is one.
LEMMA Contents ==
    /\ MaxVersions \in Nat /\ Attempts \in Nat /\ Attempts > 0
    /\ NoFile \in Content /\ NoFile # Torn /\ Torn \in Content
    /\ \A v \in Versions : v \in Content /\ v # NoFile /\ v # Torn
    /\ 1 \in Versions
    /\ Content \subseteq Nat
  BY BoundsAssumption DEF NoFile, Torn, Content, Versions

\* The record of a thread that waits is one.
LEMMA IdleTyped == IdleWorker \in Worker
  BY Contents DEF IdleWorker, Worker, Level

\* TypeOK in three parts
WorkersTyped ==
    /\ worker \in [Workers -> Worker]
    /\ \A w \in Workers : worker[w].pc # "idle" => worker[w].job \in Jobs
    /\ Tries
ModelTyped ==
    /\ drive \in Versions \cup {NoFile} /\ model \in Model /\ dest \in Content
    /\ backup \in [Jobs -> Content] /\ verifier \in Verifier
    /\ overlapped \in BOOLEAN
RowsTyped ==
    /\ job \in [Jobs -> Row] /\ submitted \in SUBSET Submission
RemoteTyped ==
    /\ remote \in [Files -> {"absent", "good", "other"}]
    /\ manifest \in Manifest /\ current \in [Jobs -> SUBSET Files]
    /\ foreign \in 0..MaxForeign
OthersTyped ==
    /\ settings \in Settings /\ kinds \in Mixes /\ up \in BOOLEAN
    /\ orphan \in [Jobs -> SUBSET Files] /\ faults \in 0..MaxFaults
    /\ whole \in [Jobs -> BOOLEAN]
Shapes ==
    WorkersTyped /\ ModelTyped /\ RowsTyped /\ RemoteTyped /\ OthersTyped

LEMMA ShapesAreTypes == Shapes <=> TypeOK /\ Tries
  BY DEF Shapes, WorkersTyped, ModelTyped, RowsTyped, RemoteTyped, OthersTyped,
         TypeOK

\* A worker takes a record that is one.
LEMMA BecomesTyped ==
    ASSUME WorkersTyped, NEW w \in Workers, NEW r \in Worker,
           r.pc # "idle" => r.job \in Jobs,
           r.pc \in {"begin", "get", "fetch"} => r.attempt < Attempts,
           worker' = [worker EXCEPT ![w] = r]
    PROVE  WorkersTyped'
  BY DEF WorkersTyped, Tries

\* A worker goes to another label.
LEMMA GoTyped ==
    ASSUME WorkersTyped, NEW w \in Workers, worker[w].pc # "idle",
           NEW label \in Label, Go(w, label),
           label \in {"begin", "get", "fetch"} => worker[w].attempt < Attempts
    PROVE  WorkersTyped'
  <1> DEFINE r == [worker[w] EXCEPT !.pc = label]
  <1>1. r \in Worker /\ r.pc = label /\ r.job = worker[w].job
        /\ r.attempt = worker[w].attempt
    BY DEF WorkersTyped, Worker
  <1>2. worker' = [worker EXCEPT ![w] = r]
    BY DEF Go, WorkersTyped
  <1>3. worker[w].job \in Jobs
    BY DEF WorkersTyped
  <1> HIDE DEF r
  <1> QED BY <1>1, <1>2, <1>3, BecomesTyped

\* A worker that works at a job takes another record of that job.
LEMMA RecordTyped ==
    ASSUME WorkersTyped, NEW w \in Workers, worker[w].pc # "idle",
           NEW r \in Worker, r.job = worker[w].job,
           r.pc \in {"begin", "get", "fetch"} => r.attempt < Attempts,
           worker' = [worker EXCEPT ![w] = r]
    PROVE  WorkersTyped'
  <1>1. worker[w].job \in Jobs
    BY DEF WorkersTyped
  <1> QED BY <1>1, BecomesTyped

\* A worker goes to wait.
LEMMA IdleWorkers ==
    ASSUME WorkersTyped, NEW w \in Workers, Idle(w) PROVE WorkersTyped'
  BY IdleTyped, BecomesTyped DEF Idle, IdleWorker

LEMMA SameWorkers == WorkersTyped /\ UNCHANGED worker => WorkersTyped'
  BY DEF WorkersTyped, Tries

\* The labels.
LEMMA Labels ==
    /\ {"begin", "get", "fetch", "fetching", "compare", "keep", "replace",
        "commit", "undo", "restore", "drop", "loseModel"} \subseteq Label
    /\ {"send", "sending", "verify", "entries", "provisional", "check", "final",
        "validate", "complete", "fail"} \subseteq Label
  BY DEF Label, DownloadLabel, UploadLabel

\* What a worker does to the row of its job.
LEMMA RowTyped ==
    ASSUME RowsTyped, NEW j \in Jobs, NEW status \in JobStatus, NEW pid \in BOOLEAN
    PROVE  /\ [job EXCEPT ![j].status = status, ![j].pid = pid] \in [Jobs -> Row]
           /\ [job EXCEPT ![j].pid = pid] \in [Jobs -> Row]
  BY DEF RowsTyped, Row

LEMMA SubmittedTyped ==
    ASSUME RowsTyped, NEW kind \in Kind, NEW token \in Content,
           Submitted(kind, token)
    PROVE  RowsTyped'
  <1>1. PICK j \in Jobs :
            /\ job' = [job EXCEPT ![j] = [NoRow EXCEPT !.kind = kind,
                                                      !.status = "pending"]]
            /\ submitted' = submitted \cup {[job |-> j, token |-> token]}
    BY DEF Submitted
  <1>2. [NoRow EXCEPT !.kind = kind, !.status = "pending"] \in Row
    BY DEF NoRow, Row, JobStatus
  <1>3. [job |-> j, token |-> token] \in Submission
    BY DEF Submission
  <1> QED BY <1>1, <1>2, <1>3 DEF RowsTyped

LEMMA FinishTyped ==
    ASSUME RowsTyped, WorkersTyped, NEW w \in Workers, worker[w].pc # "idle",
           NEW status \in JobStatus, Finish(w, status), UNCHANGED submitted
    PROVE  RowsTyped'
  BY RowTyped DEF Finish, WorkersTyped, RowsTyped

LEMMA RunningTyped ==
    ASSUME RowsTyped, WorkersTyped, NEW w \in Workers, worker[w].pc # "idle",
           NEW label, SetRunning(w, label), UNCHANGED submitted
    PROVE  RowsTyped'
  <1>1. "running" \in JobStatus
    BY DEF JobStatus
  <1> QED BY <1>1, RowTyped DEF SetRunning, WorkersTyped, RowsTyped

LEMMA PidTyped ==
    ASSUME RowsTyped, WorkersTyped, NEW w \in Workers, worker[w].pc # "idle",
           NEW pid \in BOOLEAN, SetPid(w, pid), UNCHANGED submitted
    PROVE  RowsTyped'
  BY DEF SetPid, WorkersTyped, RowsTyped, Row

LEMMA InitIInv == Init => IInv
  <1> SUFFICES ASSUME Init PROVE IInv
    OBVIOUS
  <1>1. TypeOK
    <2>1. /\ worker \in [Workers -> Worker]
          /\ \A w \in Workers : worker[w].pc # "idle" => worker[w].job \in Jobs
      BY IdleTyped DEF Init, IdleWorker
    <2>2. /\ settings \in Settings /\ kinds \in Mixes /\ up \in BOOLEAN
          /\ drive \in Versions \cup {NoFile} /\ model \in Model
          /\ dest \in Content /\ backup \in [Jobs -> Content]
      BY Contents DEF Init, Model, ModelStatus
    <2>3. /\ job \in [Jobs -> Row] /\ submitted \in SUBSET Submission
          /\ verifier \in Verifier
      BY Contents DEF Init, Row, NoRow, Kind, JobStatus, Verifier, NoVerifier
    <2>4. /\ remote \in [Files -> {"absent", "good", "other"}]
          /\ current \in [Jobs -> SUBSET Files]
          /\ orphan \in [Jobs -> SUBSET Files]
          /\ overlapped \in BOOLEAN /\ whole \in [Jobs -> BOOLEAN]
      BY DEF Init
    <2>5. manifest \in Manifest /\ foreign \in 0..MaxForeign /\ faults \in 0..MaxFaults
      BY BoundsAssumption DEF Init, Manifest, NoManifest, Level
    <2> QED BY <2>1, <2>2, <2>3, <2>4, <2>5 DEF TypeOK
  <1>2. \A w \in Workers : worker[w].pc = "idle"
    BY DEF Init, IdleWorker
  <1>3. DestinationWhole /\ VerifierIsWhole
    BY Contents DEF Init, DestinationWhole, VerifierIsWhole, NoVerifier
  <1> QED BY <1>1, <1>2, <1>3 DEF IInv, Tries, GoodWorkers, GoodRecord

\* Every action keeps the shapes.
LEMMA TypeStep ==
    ASSUME Shapes, Next PROVE Shapes'
  <1> USE DEF Shapes
  <1>0. whole' \in [Jobs -> BOOLEAN]
    BY DEF Next, WatchRemote
  <1>1. ASSUME StartDownload PROVE Shapes'
    <2>1. WorkersTyped'
      BY <1>1, SameWorkers DEF StartDownload
    <2>2. RowsTyped'
      BY <1>1, SubmittedTyped, Contents DEF StartDownload, ModelTyped, Kind
    <2>3. ModelTyped' /\ RemoteTyped' /\ OthersTyped'
      BY <1>1, <1>0, Contents
      DEF StartDownload, fixed, modelVars, remoteVars, ModelTyped,
          RemoteTyped, OthersTyped
    <2> QED BY <2>1, <2>2, <2>3 DEF Shapes
  <1>2. ASSUME StartUpload PROVE Shapes'
    <2>1. WorkersTyped'
      BY <1>2, SameWorkers DEF StartUpload
    <2>2. RowsTyped'
      BY <1>2, SubmittedTyped, Contents DEF StartUpload, ModelTyped, Kind
    <2>3. ModelTyped' /\ RemoteTyped' /\ OthersTyped'
      BY <1>2, <1>0, Contents
      DEF StartUpload, fixed, modelVars, remoteVars, ModelTyped, RemoteTyped,
          OthersTyped
    <2> QED BY <2>1, <2>2, <2>3 DEF Shapes
  <1>3. ASSUME ListModels PROVE Shapes'
    <2>1. WorkersTyped'
      BY <1>3, SameWorkers DEF ListModels
    <2>2. ModelTyped' /\ RowsTyped' /\ RemoteTyped' /\ OthersTyped'
      BY <1>3, <1>0, Contents
      DEF ListModels, fixed, modelVars, remoteVars, ModelTyped, RowsTyped,
          RemoteTyped, OthersTyped, Model, ModelStatus
    <2> QED BY <2>1, <2>2 DEF Shapes
  <1>4. ASSUME VerifyRead PROVE Shapes'
    <2>1. WorkersTyped'
      BY <1>4, SameWorkers DEF VerifyRead
    <2>2. verifier' \in Verifier
      <3>1. CASE model.sha = NoFile \/ dest = NoFile
        BY <1>4, <3>1 DEF VerifyRead, ModelTyped
      <3>2. CASE ~(model.sha = NoFile \/ dest = NoFile)
        <4>1. PICK sameSize \in BOOLEAN :
                  verifier' = [on |-> TRUE, sha |-> dest,
                               ok |-> /\ drive # NoFile
                                      /\ LooksLike(dest, drive, sameSize)]
          BY <1>4, <3>2 DEF VerifyRead
        <4> DEFINE ok == drive # NoFile /\ LooksLike(dest, drive, sameSize)
        <4>2. ok \in BOOLEAN
          OBVIOUS
        <4>3. verifier' = [on |-> TRUE, sha |-> dest, ok |-> ok]
          BY <4>1
        <4> HIDE DEF ok
        <4> QED BY <4>2, <4>3 DEF ModelTyped, Verifier
      <3> QED BY <3>1, <3>2
    <2>3. model' \in Model
      BY <1>4 DEF VerifyRead, ModelTyped, Model, ModelStatus
    <2>4. overlapped' \in BOOLEAN
      BY <1>4 DEF VerifyRead, ModelTyped, ModelInUse
    <2>5. ModelTyped'
      BY <1>4, <2>2, <2>3, <2>4 DEF VerifyRead, ModelTyped
    <2>6. RowsTyped' /\ RemoteTyped' /\ OthersTyped'
      BY <1>4, <1>0
      DEF VerifyRead, fixed, remoteVars, RowsTyped, RemoteTyped, OthersTyped
    <2> QED BY <2>1, <2>5, <2>6 DEF Shapes
  <1>5. ASSUME VerifyWrite PROVE Shapes'
    <2>1. WorkersTyped'
      BY <1>5, SameWorkers DEF VerifyWrite
    <2>2. ModelTyped' /\ RowsTyped' /\ RemoteTyped' /\ OthersTyped'
      BY <1>5, <1>0, Contents
      DEF VerifyWrite, fixed, modelVars, remoteVars, ModelTyped, RowsTyped,
          RemoteTyped, OthersTyped, Model, ModelStatus, Verifier, NoVerifier
    <2> QED BY <2>1, <2>2 DEF Shapes
  <1>6. ASSUME NEW j \in Jobs, Cancel(j) PROVE Shapes'
    <2>1. WorkersTyped'
      <3>1. \A v \in Workers :
                /\ worker'[v] \in Worker /\ worker'[v].pc = worker[v].pc
                /\ worker'[v].job = worker[v].job
                /\ worker'[v].attempt = worker[v].attempt
        <4> TAKE v \in Workers
        <4>1. worker[v] \in Worker
          BY DEF WorkersTyped
        <4>2. \/ worker'[v] = worker[v]
              \/ worker'[v] = [worker[v] EXCEPT !.token = TRUE]
          BY <1>6 DEF Cancel
        <4> QED BY ZenonT(60), <4>1, <4>2 DEF Worker
      <3>2. worker' = [v \in Workers |-> worker'[v]]
        BY <1>6 DEF Cancel
      <3> QED BY <3>1, <3>2 DEF WorkersTyped, Tries
    <2>2. RowsTyped'
      BY <1>6 DEF Cancel, RowsTyped, Row
    <2>3. ModelTyped' /\ RemoteTyped' /\ OthersTyped'
      BY <1>6, <1>0, Contents
      DEF Cancel, fixed, modelVars, remoteVars, ModelTyped, RemoteTyped,
          OthersTyped
    <2> QED BY <2>1, <2>2, <2>3 DEF Shapes
  <1>7. ASSUME ModelChanges PROVE Shapes'
    <2>1. WorkersTyped'
      BY <1>7, SameWorkers DEF ModelChanges
    <2>2. ModelTyped' /\ RowsTyped' /\ RemoteTyped' /\ OthersTyped'
      BY <1>7, <1>0, Contents
      DEF ModelChanges, fixed, modelVars, remoteVars, ModelTyped, RowsTyped,
          RemoteTyped, OthersTyped, NoFile, Versions
    <2> QED BY <2>1, <2>2 DEF Shapes
  <1>8. ASSUME Crash PROVE Shapes'
    <2>1. WorkersTyped'
      BY <1>8, IdleTyped DEF Crash, WorkersTyped, Tries, IdleWorker
    <2>2. ModelTyped' /\ RowsTyped' /\ RemoteTyped'
      BY <1>8, <1>0, Contents
      DEF Crash, modelVars, remoteVars, ModelTyped, RowsTyped, RemoteTyped,
          NoVerifier, Verifier
    <2>3. OthersTyped'
      <3>1. \A v \in Workers : Sending(v) \in SUBSET Files
        BY DEF WorkersTyped, Worker, Sending
      <3>2. orphan' \in [Jobs -> SUBSET Files]
        BY <1>8, <3>1 DEF Crash, OthersTyped
      <3>3. faults' \in 0..MaxFaults
        BY <1>8, BoundsAssumption DEF Crash, Fault, OthersTyped
      <3> QED BY <1>8, <1>0, <3>2, <3>3 DEF Crash, fixed, OthersTyped
    <2> QED BY <2>1, <2>2, <2>3 DEF Shapes
  <1>9. ASSUME Restart PROVE Shapes'
    <2>1. WorkersTyped'
      BY <1>9, SameWorkers DEF Restart
    <2>2. RowsTyped'
      BY ZenonT(60), <1>9 DEF Restart, RowsTyped, Row, JobStatus
    <2>3. ModelTyped' /\ RemoteTyped' /\ OthersTyped'
      BY <1>9, <1>0, Contents
      DEF Restart, fixed, modelVars, remoteVars, ModelTyped, RemoteTyped,
          OthersTyped
    <2> QED BY <2>1, <2>2, <2>3 DEF Shapes
  <1>10. ASSUME NEW f \in Files, SnapshotChanges(f) PROVE Shapes'
    <2>1. WorkersTyped'
      BY <1>10, SameWorkers DEF SnapshotChanges
    <2>2. RemoteTyped'
      BY <1>10, BoundsAssumption DEF SnapshotChanges, Changed, RemoteTyped
    <2>3. ModelTyped' /\ RowsTyped' /\ OthersTyped'
      BY <1>10, <1>0, BoundsAssumption, Contents
      DEF SnapshotChanges, fixed, modelVars, remoteVars, ModelTyped,
          RowsTyped, OthersTyped
    <2> QED BY <2>1, <2>2, <2>3 DEF Shapes
  <1>11. ASSUME NEW j \in Jobs, NEW f \in Files, OrphanEnds(j, f) PROVE Shapes'
    <2>1. WorkersTyped'
      <3>1. UNCHANGED worker
        BY <1>11 DEF OrphanEnds
      <3> QED BY <3>1, SameWorkers
    <2>2. RemoteTyped'
      <3>1. CASE Changed(f, "good")
        BY <1>11, <3>1 DEF OrphanEnds, Changed, RemoteTyped
      <3>2. CASE UNCHANGED <<remote, current>>
        BY <1>11, <3>2 DEF OrphanEnds, RemoteTyped
      <3> QED BY <1>11, <3>1, <3>2 DEF OrphanEnds
    <2>3. ModelTyped' /\ RowsTyped' /\ OthersTyped'
      BY <1>11, <1>0, BoundsAssumption, Contents
      DEF OrphanEnds, fixed, modelVars, remoteVars, ModelTyped, RowsTyped,
          OthersTyped
    <2> QED BY <2>1, <2>2, <2>3 DEF Shapes
  <1>12. ASSUME NEW w \in Workers, Raise(w) PROVE Shapes'
    <2>1. WorkersTyped'
      BY <1>12, GoTyped, Labels, IdleWorkers DEF Raise, Handler
    <2>2. RemoteTyped'
      BY <1>12 DEF Raise, remoteVars, RemoteTyped
    <2>3. ModelTyped'
      BY <1>12, <1>0 DEF Raise, fixed, modelVars, ModelTyped
    <2>4. RowsTyped'
      <3>1. worker[w].pc # "idle" /\ UNCHANGED submitted
        BY <1>12 DEF Raise
      <3>2. CASE SetPid(w, FALSE)
        BY <3>1, <3>2, PidTyped
      <3>3. CASE UNCHANGED job
        BY <3>1, <3>3 DEF RowsTyped
      <3> QED BY <1>12, <3>2, <3>3 DEF Raise
    <2>5. OthersTyped'
      <3>1. Sending(w) \in SUBSET Files
        BY DEF WorkersTyped, Worker, Sending
      <3>2. orphan' \in [Jobs -> SUBSET Files]
        BY <1>12, <3>1 DEF Raise, OthersTyped
      <3>3. faults' \in 0..MaxFaults
        BY <1>12, BoundsAssumption DEF Raise, Fault, OthersTyped
      <3> QED BY <1>12, <1>0, <3>2, <3>3 DEF Raise, fixed, OthersTyped
    <2> QED BY <2>1, <2>2, <2>3, <2>4, <2>5 DEF Shapes
  <1>13. ASSUME NEW w \in Workers, NEW call \in submitted, Take(w, call)
         PROVE Shapes'
    <2>1. WorkersTyped'
      <3> DEFINE r == [IdleWorker EXCEPT !.pc = "begin", !.job = call.job,
                                         !.entry = call.token]
      <3>1. call \in Submission
        BY DEF RowsTyped
      <3>2. IdleWorker \in Worker /\ IdleWorker.attempt = 0
        BY IdleTyped DEF IdleWorker
      <3>3. call.job \in Jobs /\ call.job \in Nat /\ call.token \in Content
        BY <3>1, BoundsAssumption DEF Submission, Jobs
      <3>4. "begin" \in Label /\ "not_verified" \in Level
        BY Labels DEF Level
      <3>5. r \in Worker
        BY <3>2, <3>3, <3>4 DEF Worker
      <3>6. r.pc = "begin" /\ r.job \in Jobs /\ r.attempt = 0
        BY <3>2, <3>3 DEF Worker
      <3>7. worker' = [worker EXCEPT ![w] = r]
        BY <1>13 DEF Take
      <3> HIDE DEF r
      <3> QED BY <3>5, <3>6, <3>7, Contents, BecomesTyped
    <2>2. ModelTyped' /\ RowsTyped' /\ RemoteTyped' /\ OthersTyped'
      BY <1>13, <1>0, Contents
      DEF Take, fixed, modelVars, remoteVars, ModelTyped, RowsTyped,
          RemoteTyped, OthersTyped
    <2> QED BY <2>1, <2>2 DEF Shapes
  <1>14. ASSUME NEW w \in Workers, Complete(w) PROVE Shapes'
    <2>1. WorkersTyped'
      BY <1>14, IdleWorkers DEF Complete
    <2>2. RowsTyped'
      BY <1>14, FinishTyped DEF Complete, At, JobStatus
    <2>3. ModelTyped' /\ RemoteTyped' /\ OthersTyped'
      BY <1>14, <1>0, Contents
      DEF Complete, fixed, modelVars, remoteVars, ModelTyped, RemoteTyped,
          OthersTyped
    <2> QED BY <2>1, <2>2, <2>3 DEF Shapes
  <1>15. ASSUME NEW w \in Workers, Fail(w) PROVE Shapes'
    <2>1. WorkersTyped'
      BY <1>15, IdleWorkers DEF Fail
    <2>2. RowsTyped'
      BY <1>15, FinishTyped DEF Fail, At, JobStatus, EndStatus
    <2>3. ModelTyped' /\ RemoteTyped' /\ OthersTyped'
      BY <1>15, <1>0, Contents
      DEF Fail, fixed, modelVars, remoteVars, ModelTyped, RemoteTyped,
          OthersTyped
    <2> QED BY <2>1, <2>2, <2>3 DEF Shapes
  <1>16. ASSUME NEW w \in Workers, BeginDownload(w) PROVE Shapes'
    <2>1. WorkersTyped'
      <3>0. /\ worker[w] \in Worker /\ worker[w].pc = "begin"
            /\ worker[w].pc # "idle"
            /\ worker \in [Workers -> Worker]
        BY <1>16 DEF BeginDownload, At, WorkersTyped
      <3>1. worker[w].attempt < Attempts /\ drive \in Content
        BY <3>0, Contents DEF WorkersTyped, Tries, ModelTyped
      <3>2. CASE Idle(w)
        BY <3>2, IdleWorkers
      <3>3. CASE worker' = [worker EXCEPT ![w] = [@ EXCEPT !.pc = "complete",
                                                        !.entry = NoFile]]
        <4> DEFINE r == [worker[w] EXCEPT !.pc = "complete", !.entry = NoFile]
        <4>1. r \in Worker /\ r.job = worker[w].job /\ r.pc = "complete"
          BY <3>0, Labels, Contents DEF Worker
        <4>2. worker' = [worker EXCEPT ![w] = r]
          BY <1>16, <3>0, <3>3 DEF BeginDownload
        <4> HIDE DEF r
        <4> QED BY <3>0, <4>1, <4>2, RecordTyped
      <3>4. CASE worker' = [worker EXCEPT ![w] =
                        [@ EXCEPT !.pc = "get", !.entry = drive,
                                  !.preserve = SavedLocalMatches]]
        <4> DEFINE r == [worker[w] EXCEPT !.pc = "get", !.entry = drive,
                                         !.preserve = SavedLocalMatches]
        <4>1. r \in Worker /\ r.job = worker[w].job /\ r.pc = "get"
          BY <3>0, Labels, Contents, <3>1 DEF Worker, SavedLocalMatches
        <4>2. worker' = [worker EXCEPT ![w] = r]
          BY <1>16, <3>0, <3>4 DEF BeginDownload
        <4>3. r.attempt < Attempts
          BY <3>0, <3>1 DEF Worker
        <4> HIDE DEF r
        <4> QED BY <3>0, <4>1, <4>2, <4>3, RecordTyped
      <3> QED BY <1>16, <3>2, <3>3, <3>4 DEF BeginDownload
    <2>2. ModelTyped' /\ RowsTyped' /\ RemoteTyped' /\ OthersTyped'
      BY ZenonT(60), <1>16, <1>0, Contents
      DEF BeginDownload, fixed, modelVars, remoteVars, ModelTyped, RowsTyped,
          RemoteTyped, OthersTyped, Model, ModelStatus
    <2> QED BY <2>1, <2>2 DEF Shapes
  <1>17. ASSUME NEW w \in Workers, RunDownload(w) PROVE Shapes'
    <2>1. WorkersTyped'
      BY <1>17, GoTyped, Labels
      DEF RunDownload, SetRunning, At, WorkersTyped, Tries
    <2>2. RowsTyped'
      BY <1>17, RunningTyped DEF RunDownload, SetRunning, At
    <2>3. ModelTyped' /\ RemoteTyped' /\ OthersTyped'
      BY <1>17, <1>0, Contents
      DEF RunDownload, fixed, modelVars, remoteVars, ModelTyped, RemoteTyped,
          OthersTyped
    <2> QED BY <2>1, <2>2, <2>3 DEF Shapes
  <1>18. ASSUME NEW w \in Workers, Fetch(w) PROVE Shapes'
    <2>1. WorkersTyped'
      <3>0. /\ worker[w] \in Worker /\ worker[w].pc = "fetch"
            /\ worker[w].pc # "idle"
            /\ worker \in [Workers -> Worker]
        BY <1>18 DEF Fetch, At, WorkersTyped
      <3>1. CASE Go(w, "loseModel")
        BY <3>0, <3>1, GoTyped, Labels
      <3>2. worker[w].attempt < Attempts /\ drive \in Content
        BY <3>0, Contents DEF WorkersTyped, Tries, ModelTyped
      <3>4. worker[w].attempt + 1 \in 0..Attempts
        BY <3>0, <3>2, Contents DEF Worker
      <3>3. CASE worker' = [worker EXCEPT ![w] =
                        [@ EXCEPT !.pc = "fetching", !.source = drive,
                                  !.part = NoFile,
                                  !.attempt = worker[w].attempt + 1]]
        <4> DEFINE r == [worker[w] EXCEPT
                           !.pc = "fetching", !.source = drive,
                           !.part = NoFile, !.attempt = worker[w].attempt + 1]
        <4>1. r \in Worker /\ r.job = worker[w].job /\ r.pc = "fetching"
          BY <3>0, Labels, Contents, <3>2, <3>4 DEF Worker
        <4>2. worker' = [worker EXCEPT ![w] = r]
          BY <1>18, <3>0, <3>3 DEF Fetch
        <4> HIDE DEF r
        <4> QED BY <3>0, <4>1, <4>2, RecordTyped
      <3> QED BY <1>18, <3>1, <3>3 DEF Fetch
    <2>2. RowsTyped'
      BY <1>18, PidTyped DEF Fetch, At, RowsTyped
    <2>3. ModelTyped' /\ RemoteTyped' /\ OthersTyped'
      BY <1>18, <1>0, Contents
      DEF Fetch, fixed, modelVars, remoteVars, ModelTyped, RemoteTyped,
          OthersTyped
    <2> QED BY <2>1, <2>2, <2>3 DEF Shapes
  <1>19. ASSUME NEW w \in Workers, Fetched(w) PROVE Shapes'
    <2>1. WorkersTyped'
      <3>0. /\ worker[w] \in Worker /\ worker[w].pc = "fetching"
            /\ worker[w].pc # "idle"
            /\ worker \in [Workers -> Worker]
        BY <1>19 DEF Fetched, At, WorkersTyped
      <3> DEFINE part == IF drive = worker[w].source THEN drive ELSE Torn
      <3>1. part \in Content /\ 0 \in 0..Attempts
        BY Contents DEF ModelTyped
      <3>2. ASSUME NEW again \in BOOLEAN,
                   Go(w, IF again /\ Retry(w) THEN "fetch" ELSE "loseModel")
            PROVE  WorkersTyped'
        BY <3>0, <3>2, GoTyped, Labels DEF Retry
      <3> HIDE DEF part
      <3>3. CASE worker' = [worker EXCEPT ![w] =
                        [@ EXCEPT !.pc = "compare", !.part = part,
                                  !.source = NoFile, !.attempt = 0]]
        <4> DEFINE r == [worker[w] EXCEPT !.pc = "compare", !.part = part,
                                         !.source = NoFile, !.attempt = 0]
        <4>1. r \in Worker /\ r.job = worker[w].job /\ r.pc = "compare"
          BY <3>0, Labels, Contents, <3>1 DEF Worker
        <4>2. worker' = [worker EXCEPT ![w] = r]
          BY <1>19, <3>0, <3>3 DEF Fetched
        <4> HIDE DEF r
        <4> QED BY <3>0, <4>1, <4>2, RecordTyped
      <3> QED BY <1>19, <3>2, <3>3 DEF Fetched, part
    <2>2. RowsTyped'
      BY <1>19, PidTyped DEF Fetched, At
    <2>3. ModelTyped' /\ RemoteTyped' /\ OthersTyped'
      BY <1>19, <1>0, Contents
      DEF Fetched, fixed, modelVars, remoteVars, ModelTyped, RemoteTyped,
          OthersTyped
    <2> QED BY <2>1, <2>2, <2>3 DEF Shapes
  <1>20. ASSUME NEW w \in Workers, Compare(w) PROVE Shapes'
    <2>1. WorkersTyped'
      <3>0. /\ worker[w] \in Worker /\ worker[w].pc = "compare"
            /\ worker[w].pc # "idle"
            /\ worker \in [Workers -> Worker]
        BY <1>20 DEF Compare, At, WorkersTyped
      <3>1. CASE Go(w, IF dest # NoFile THEN "keep" ELSE "replace")
        BY <3>0, <3>1, GoTyped, Labels
      <3>2. CASE worker' = [worker EXCEPT ![w] =
                        [@ EXCEPT !.pc = "loseModel", !.changed = TRUE]]
        <4> DEFINE r == [worker[w] EXCEPT !.pc = "loseModel", !.changed = TRUE]
        <4>1. r \in Worker /\ r.job = worker[w].job /\ r.pc = "loseModel"
          BY <3>0, Labels, Contents DEF Worker
        <4>2. worker' = [worker EXCEPT ![w] = r]
          BY <1>20, <3>0, <3>2 DEF Compare
        <4> HIDE DEF r
        <4> QED BY <3>0, <4>1, <4>2, RecordTyped
      <3> QED BY <1>20, <3>1, <3>2 DEF Compare
    <2>2. ModelTyped' /\ RowsTyped' /\ RemoteTyped' /\ OthersTyped'
      BY <1>20, <1>0, Contents
      DEF Compare, fixed, modelVars, remoteVars, ModelTyped, RowsTyped,
          RemoteTyped, OthersTyped
    <2> QED BY <2>1, <2>2 DEF Shapes
  <1>21. ASSUME NEW w \in Workers, KeepBackup(w) PROVE Shapes'
    <2>1. WorkersTyped'
      BY <1>21, GoTyped, Labels DEF KeepBackup, At
    <2>2. ModelTyped' /\ RowsTyped' /\ RemoteTyped' /\ OthersTyped'
      BY <1>21, <1>0, Contents
      DEF KeepBackup, fixed, modelVars, remoteVars, ModelTyped, RowsTyped,
          RemoteTyped, OthersTyped, WorkersTyped, At
    <2> QED BY <2>1, <2>2 DEF Shapes
  <1>22. ASSUME NEW w \in Workers, Replace(w) PROVE Shapes'
    <2>1. WorkersTyped'
      BY <1>22, GoTyped, Labels DEF Replace, At
    <2>2. ModelTyped' /\ RowsTyped' /\ RemoteTyped' /\ OthersTyped'
      BY <1>22, <1>0, Contents
      DEF Replace, fixed, modelVars, remoteVars, ModelTyped, RowsTyped,
          RemoteTyped, OthersTyped, WorkersTyped, Worker, At
    <2> QED BY <2>1, <2>2 DEF Shapes
  <1>23. ASSUME NEW w \in Workers, CommitModel(w) PROVE Shapes'
    <2>1. WorkersTyped'
      BY <1>23, GoTyped, Labels DEF CommitModel, At
    <2>2. ModelTyped' /\ RowsTyped' /\ RemoteTyped' /\ OthersTyped'
      BY <1>23, <1>0, Contents
      DEF CommitModel, fixed, modelVars, remoteVars, ModelTyped, RowsTyped,
          RemoteTyped, OthersTyped, Model, ModelStatus, WorkersTyped, Worker,
          At
    <2> QED BY <2>1, <2>2 DEF Shapes
  <1>24. ASSUME NEW w \in Workers, Undo(w) PROVE Shapes'
    <2>1. WorkersTyped'
      BY <1>24, GoTyped, Labels DEF Undo, At
    <2>2. ModelTyped' /\ RowsTyped' /\ RemoteTyped' /\ OthersTyped'
      BY <1>24, <1>0, Contents
      DEF Undo, fixed, modelVars, remoteVars, ModelTyped, RowsTyped,
          RemoteTyped, OthersTyped
    <2> QED BY <2>1, <2>2 DEF Shapes
  <1>25. ASSUME NEW w \in Workers, Restore(w) PROVE Shapes'
    <2>1. WorkersTyped'
      BY <1>25, GoTyped, Labels DEF Restore, At
    <2>2. ModelTyped' /\ RowsTyped' /\ RemoteTyped' /\ OthersTyped'
      BY <1>25, <1>0, Contents
      DEF Restore, fixed, modelVars, remoteVars, ModelTyped, RowsTyped,
          RemoteTyped, OthersTyped, WorkersTyped, At
    <2> QED BY <2>1, <2>2 DEF Shapes
  <1>26. ASSUME NEW w \in Workers, DropBackup(w) PROVE Shapes'
    <2>1. WorkersTyped'
      BY <1>26, GoTyped, Labels DEF DropBackup, At
    <2>2. ModelTyped' /\ RowsTyped' /\ RemoteTyped' /\ OthersTyped'
      BY <1>26, <1>0, Contents
      DEF DropBackup, fixed, modelVars, remoteVars, ModelTyped, RowsTyped,
          RemoteTyped, OthersTyped, WorkersTyped, At
    <2> QED BY <2>1, <2>2 DEF Shapes
  <1>27. ASSUME NEW w \in Workers, LoseModel(w) PROVE Shapes'
    <2>1. WorkersTyped'
      BY <1>27, GoTyped, Labels DEF LoseModel, At
    <2>2. ModelTyped' /\ RowsTyped' /\ RemoteTyped' /\ OthersTyped'
      BY <1>27, <1>0, Contents
      DEF LoseModel, fixed, modelVars, remoteVars, ModelTyped, RowsTyped,
          RemoteTyped, OthersTyped, Model, ModelStatus
    <2> QED BY <2>1, <2>2 DEF Shapes
  <1>28. ASSUME NEW w \in Workers, BeginUpload(w) PROVE Shapes'
    <2>1. WorkersTyped'
      <3>0. /\ worker[w] \in Worker /\ worker[w].pc = "begin"
            /\ worker[w].pc # "idle"
            /\ worker \in [Workers -> Worker]
        BY <1>28 DEF BeginUpload, At, WorkersTyped
      <3>1. CASE Idle(w)
        BY <3>1, IdleWorkers
      <3>3. UploadPlan \in [Files -> {"copy", "skip"}]
        BY DEF UploadPlan
      <3>2. CASE worker' = [worker EXCEPT ![w] =
                        [@ EXCEPT !.pc = "send", !.plan = UploadPlan,
                                  !.todo = Files]]
        <4> DEFINE r == [worker[w] EXCEPT !.pc = "send", !.plan = UploadPlan,
                                         !.todo = Files]
        <4>1. r \in Worker /\ r.job = worker[w].job /\ r.pc = "send"
          BY <3>0, Labels, Contents, <3>3 DEF Worker
        <4>2. worker' = [worker EXCEPT ![w] = r]
          BY <1>28, <3>0, <3>2 DEF BeginUpload
        <4> HIDE DEF r
        <4> QED BY <3>0, <4>1, <4>2, RecordTyped
      <3> QED BY <1>28, <3>1, <3>2 DEF BeginUpload
    <2>2. RowsTyped'
      BY <1>28, RunningTyped DEF BeginUpload, SetRunning, At, RowsTyped
    <2>3. ModelTyped' /\ RemoteTyped' /\ OthersTyped'
      BY <1>28, <1>0, Contents
      DEF BeginUpload, fixed, modelVars, remoteVars, ModelTyped, RemoteTyped,
          OthersTyped
    <2> QED BY <2>1, <2>2, <2>3 DEF Shapes
  <1>29. ASSUME NEW w \in Workers, AllSent(w) PROVE Shapes'
    <2>1. WorkersTyped'
      BY <1>29, GoTyped, Labels DEF AllSent, At
    <2>2. ModelTyped' /\ RowsTyped' /\ RemoteTyped' /\ OthersTyped'
      BY <1>29, <1>0, Contents
      DEF AllSent, fixed, modelVars, remoteVars, ModelTyped, RowsTyped,
          RemoteTyped, OthersTyped
    <2> QED BY <2>1, <2>2 DEF Shapes
  <1>30. ASSUME NEW w \in Workers, Verify(w) PROVE Shapes'
    <2>1. WorkersTyped'
      <3>0. /\ worker[w] \in Worker /\ worker[w].pc = "verify"
            /\ worker[w].pc # "idle"
            /\ worker \in [Workers -> Worker]
        BY <1>30 DEF Verify, At, WorkersTyped
      <3>1. CASE Go(w, "fail")
        BY <3>0, <3>1, GoTyped, Labels
      <3>3. CASE /\ \A f \in Files : Verified(f)
                 /\ worker' = [worker EXCEPT ![w] = [@ EXCEPT !.pc = "entries",
                                                    !.level = VerifiedLevel]]
        <4>3. settings.verify \in Policy /\ settings.fallback \in Fallback
          BY SettingsAssumption DEF OthersTyped
        <4>4. VerifiedLevel \in Level
          BY <3>3, <4>3, FilesAssumption
          DEF Verified, VerifiedLevel, Level, Policy, Fallback
        <4> DEFINE r == [worker[w] EXCEPT !.pc = "entries", !.level = VerifiedLevel]
        <4>1. r \in Worker /\ r.job = worker[w].job /\ r.pc = "entries"
          BY <3>0, Labels, Contents, <4>4 DEF Worker
        <4>2. worker' = [worker EXCEPT ![w] = r]
          BY <1>30, <3>0, <3>3 DEF Verify
        <4> HIDE DEF r
        <4> QED BY <3>0, <4>1, <4>2, RecordTyped
      <3> QED BY <1>30, <3>1, <3>3 DEF Verify
    <2>2. ModelTyped' /\ RowsTyped' /\ RemoteTyped' /\ OthersTyped'
      BY <1>30, <1>0, Contents
      DEF Verify, fixed, modelVars, remoteVars, ModelTyped, RowsTyped,
          RemoteTyped, OthersTyped
    <2> QED BY <2>1, <2>2 DEF Shapes
  <1>31. ASSUME NEW w \in Workers, RecordEntries(w) PROVE Shapes'
    <2>1. WorkersTyped'
      BY <1>31, GoTyped, Labels DEF RecordEntries, At
    <2>2. ModelTyped' /\ RowsTyped' /\ RemoteTyped' /\ OthersTyped'
      BY <1>31, <1>0, Contents
      DEF RecordEntries, fixed, modelVars, remoteVars, ModelTyped, RowsTyped,
          RemoteTyped, OthersTyped, WorkersTyped, At
    <2> QED BY <2>1, <2>2 DEF Shapes
  <1>32. ASSUME NEW w \in Workers, SendProvisional(w) PROVE Shapes'
    <2>1. WorkersTyped'
      BY <1>32, GoTyped, Labels DEF SendProvisional, CopyManifest, At
    <2>2. ModelTyped' /\ RowsTyped' /\ RemoteTyped' /\ OthersTyped'
      BY <1>32, <1>0, Contents
      DEF SendProvisional, CopyManifest, fixed, modelVars, remoteVars,
          ModelTyped, RowsTyped, RemoteTyped, OthersTyped, Manifest,
          WorkersTyped, Worker, Jobs, At
    <2> QED BY <2>1, <2>2 DEF Shapes
  <1>33. ASSUME NEW w \in Workers, Check(w) PROVE Shapes'
    <2>1. WorkersTyped'
      <3>0. /\ worker[w] \in Worker /\ worker[w].pc = "check"
            /\ worker[w].pc # "idle"
            /\ worker \in [Workers -> Worker]
        BY <1>33 DEF Check, At, WorkersTyped
      <3> DEFINE limited == settings.verify = "size_and_manifest"
      <3>1. CASE Go(w, "fail")
        BY <3>0, <3>1, GoTyped, Labels
      <3>3. settings.verify \in Level
        BY SettingsAssumption DEF Level, OthersTyped, Policy
      <3> DEFINE label == IF limited THEN "final" ELSE "validate"
      <3>4. label \in Label /\ label \notin {"idle", "begin", "get", "fetch"}
        BY Labels
      <3> DEFINE level == IF limited THEN settings.verify ELSE worker[w].level
      <3>5. level \in Level
        BY <3>0, <3>3 DEF Worker
      <3>2. CASE worker' = [worker EXCEPT ![w] =
                               [@ EXCEPT !.pc = label, !.level = IF limited THEN settings.verify
                                         ELSE worker[w].level]]
        <4> HIDE DEF label, level
        <4> DEFINE r == [worker[w] EXCEPT !.pc = label, !.level = level]
        <4>1. r \in Worker /\ r.job = worker[w].job /\ r.pc = label
          BY <3>0, <3>4, <3>5 DEF Worker
        <4>2. worker' = [worker EXCEPT ![w] = r]
          BY <3>0, <3>2 DEF level, label, r
        <4> HIDE DEF r
        <4> QED BY <3>0, <3>4, <4>1, <4>2, RecordTyped
      <3> QED BY <1>33, <3>1, <3>2 DEF Check
    <2>2. ModelTyped' /\ RowsTyped' /\ RemoteTyped' /\ OthersTyped'
      BY <1>33, <1>0, Contents
      DEF Check, fixed, modelVars, remoteVars, ModelTyped, RowsTyped,
          RemoteTyped, OthersTyped
    <2> QED BY <2>1, <2>2 DEF Shapes
  <1>34. ASSUME NEW w \in Workers, SendFinal(w) PROVE Shapes'
    <2>1. WorkersTyped'
      BY <1>34, GoTyped, Labels DEF SendFinal, CopyManifest, At
    <2>2. ModelTyped' /\ RowsTyped' /\ RemoteTyped' /\ OthersTyped'
      BY <1>34, <1>0, Contents
      DEF SendFinal, CopyManifest, fixed, modelVars, remoteVars, ModelTyped,
          RowsTyped, RemoteTyped, OthersTyped, Manifest, WorkersTyped, Worker,
          Jobs, At
    <2> QED BY <2>1, <2>2 DEF Shapes
  <1>35. ASSUME NEW w \in Workers, Validate(w) PROVE Shapes'
    <2>1. WorkersTyped'
      BY <1>35, GoTyped, Labels DEF Validate, At
    <2>2. ModelTyped' /\ RowsTyped' /\ RemoteTyped' /\ OthersTyped'
      BY <1>35, <1>0, Contents
      DEF Validate, fixed, modelVars, remoteVars, ModelTyped, RowsTyped,
          RemoteTyped, OthersTyped
    <2> QED BY <2>1, <2>2 DEF Shapes
  <1>36. ASSUME NEW w \in Workers, NEW f \in Files, Send(w, f) PROVE Shapes'
    <2>1. WorkersTyped'
      <3>0. /\ worker[w] \in Worker /\ worker[w].pc = "send"
            /\ worker[w].pc # "idle"
            /\ worker \in [Workers -> Worker]
        BY <1>36 DEF Send, At, WorkersTyped
      <3>1. CASE worker' = [worker EXCEPT ![w] = [@ EXCEPT !.pc = "fail",
                                                        !.token = TRUE]]
        <4> DEFINE r == [worker[w] EXCEPT !.pc = "fail", !.token = TRUE]
        <4>1. r \in Worker /\ r.job = worker[w].job /\ r.pc = "fail"
          BY <3>0, Labels, Contents DEF Worker
        <4>2. worker' = [worker EXCEPT ![w] = r]
          BY <1>36, <3>0, <3>1 DEF Send
        <4> HIDE DEF r
        <4> QED BY <3>0, <4>1, <4>2, RecordTyped
      <3>2. CASE worker' = [worker EXCEPT ![w] =
                        [@ EXCEPT !.todo = worker[w].todo \ {f},
                                  !.plan = CopyLater(w, f)]]
        <4> DEFINE r == [worker[w] EXCEPT !.todo = worker[w].todo \ {f},
                             !.plan = CopyLater(w, f)]
        <4>1. r \in Worker /\ r.job = worker[w].job /\ r.pc = "send"
          BY <3>0, Labels, Contents DEF Worker, CopyLater
        <4>2. worker' = [worker EXCEPT ![w] = r]
          BY <1>36, <3>0, <3>2 DEF Send
        <4> HIDE DEF r
        <4> QED BY <3>0, <4>1, <4>2, RecordTyped
      <3>3. CASE worker' = [worker EXCEPT ![w] =
                        [@ EXCEPT !.pc = "sending", !.file = {f}]]
        <4> DEFINE r == [worker[w] EXCEPT !.pc = "sending", !.file = {f}]
        <4>1. r \in Worker /\ r.job = worker[w].job /\ r.pc = "sending"
          BY <3>0, Labels, Contents DEF Worker
        <4>2. worker' = [worker EXCEPT ![w] = r]
          BY <1>36, <3>0, <3>3 DEF Send
        <4> HIDE DEF r
        <4> QED BY <3>0, <4>1, <4>2, RecordTyped
      <3> QED BY <1>36, <3>1, <3>2, <3>3 DEF Send
    <2>2. RowsTyped'
      BY <1>36, PidTyped DEF Send, At, RowsTyped
    <2>3. ModelTyped' /\ RemoteTyped' /\ OthersTyped'
      BY <1>36, <1>0, Contents
      DEF Send, fixed, modelVars, remoteVars, ModelTyped, RemoteTyped,
          OthersTyped
    <2> QED BY <2>1, <2>2, <2>3 DEF Shapes
  <1>37. ASSUME NEW w \in Workers, NEW f \in Files, Sent(w, f) PROVE Shapes'
    <2>1. WorkersTyped'
      <3>0. /\ worker[w] \in Worker /\ worker[w].pc = "sending"
            /\ worker[w].pc # "idle"
            /\ worker \in [Workers -> Worker]
        BY <1>37 DEF Sent, At, WorkersTyped
      <3>1. PICK zero \in BOOLEAN :
                worker' = [worker EXCEPT ![w] =
                              [@ EXCEPT !.pc = IF zero THEN "send" ELSE "fail",
                                        !.todo = worker[w].todo \ {f},
                                        !.file = {}, !.plan = CopyLater(w, f)]]
        BY <1>37 DEF Sent
      <3> DEFINE label == IF zero THEN "send" ELSE "fail"
      <3>2. label \in Label /\ label \notin {"idle", "begin", "get", "fetch"}
        BY Labels
      <3> HIDE DEF label
      <3> DEFINE r == [worker[w] EXCEPT
                         !.pc = label, !.todo = worker[w].todo \ {f},
                         !.file = {},
                         !.plan = CopyLater(w, f)]
      <3>3. r \in Worker /\ r.job = worker[w].job /\ r.pc = label
        BY <3>0, <3>2 DEF Worker, CopyLater
      <3>4. worker' = [worker EXCEPT ![w] = r]
        BY <3>0, <3>1 DEF label, r
      <3> HIDE DEF r
      <3> QED BY <3>0, <3>2, <3>3, <3>4, RecordTyped
    <2>2. RowsTyped'
      BY <1>37, PidTyped DEF Sent, At
    <2>3. ModelTyped' /\ RemoteTyped' /\ OthersTyped'
      BY <1>37, <1>0, Contents
      DEF Sent, fixed, modelVars, remoteVars, ModelTyped, RemoteTyped,
          OthersTyped, Changed
    <2> QED BY <2>1, <2>2, <2>3 DEF Shapes
  <1> QED
    BY <1>1, <1>2, <1>3, <1>4, <1>5, <1>6, <1>7, <1>8, <1>9, <1>10, <1>11,
       <1>12, <1>13, <1>14, <1>15, <1>16, <1>17, <1>18, <1>19, <1>20, <1>21,
       <1>22, <1>23, <1>24, <1>25, <1>26, <1>27, <1>28, <1>29, <1>30, <1>31,
       <1>32, <1>33, <1>34, <1>35, <1>36, <1>37
    DEF Next, Call, Environment, WorkerStep, DownloadStep, UploadStep

-----------------------------------------------------------------------------
(* the copy that a worker makes *)

\* The labels at which a record says something of the copy.
Copying == {"get", "fetch", "fetching", "compare", "keep", "replace",
            "commit"}

LEMMA RecordGood ==
    ASSUME WorkersTyped, GoodWorkers, NEW w \in Workers, NEW r,
           r.pc \in Copying => GoodRecord(r, drive),
           worker' = [worker EXCEPT ![w] = r], UNCHANGED drive
    PROVE  GoodWorkers'
  <1>1. GoodRecord(r, drive)
    BY DEF GoodRecord, Copying
  <1>2. \A v \in Workers : worker'[v] = IF v = w THEN r ELSE worker[v]
    BY DEF WorkersTyped
  <1> HIDE DEF GoodRecord
  <1> QED BY <1>1, <1>2 DEF GoodWorkers

LEMMA GoGood ==
    ASSUME WorkersTyped, GoodWorkers, NEW w \in Workers, NEW label,
           label \notin Copying, Go(w, label), UNCHANGED drive
    PROVE  GoodWorkers'
  <1> DEFINE r == [worker[w] EXCEPT !.pc = label]
  <1>1. r.pc = label /\ worker' = [worker EXCEPT ![w] = r]
    BY DEF Go, WorkersTyped, Worker
  <1> HIDE DEF r
  <1> QED BY <1>1, RecordGood

LEMMA IdleGood ==
    ASSUME WorkersTyped, GoodWorkers, NEW w \in Workers, Idle(w),
           UNCHANGED drive
    PROVE  GoodWorkers'
  BY RecordGood DEF Idle, IdleWorker, Copying

LEMMA SameGood ==
    ASSUME GoodWorkers, UNCHANGED <<worker, drive>> PROVE GoodWorkers'
  BY DEF GoodWorkers

\* The remote's version only grows, the order of GoodRecord with it.
LEMMA LaterGood ==
    ASSUME Shapes, GoodWorkers, ModelChanges PROVE GoodWorkers'
  <1>1. drive \in Nat /\ drive' \in Nat /\ drive < drive'
    BY BoundsAssumption
    DEF ModelChanges, Shapes, ModelTyped, Versions, NoFile
  <1>2. \A w \in Workers :
            worker[w].entry \in Nat /\ worker[w].source \in Nat
    BY Contents DEF Shapes, WorkersTyped, Worker
  <1> SUFFICES ASSUME NEW w \in Workers PROVE GoodRecord(worker[w], drive)'
    BY DEF GoodWorkers
  <1>3. GoodRecord(worker[w], drive) /\ UNCHANGED worker
    BY DEF GoodWorkers, ModelChanges
  <1> QED BY <1>1, <1>2, <1>3 DEF GoodRecord

\* Every action keeps what the records say of the copy.
LEMMA GoodStep ==
    ASSUME Shapes, GoodWorkers, Next PROVE GoodWorkers'
  <1>0. WorkersTyped /\ ModelTyped
    BY DEF Shapes
  <1>a. drive \in Nat /\ drive <= drive /\ ~(drive < drive)
    <2>1. drive \in Nat
      BY <1>0, Contents DEF ModelTyped
    <2> QED BY <2>1
  <1>1. ASSUME StartDownload PROVE GoodWorkers'
    BY <1>1, SameGood DEF StartDownload, modelVars
  <1>2. ASSUME StartUpload PROVE GoodWorkers'
    BY <1>2, SameGood DEF StartUpload, modelVars
  <1>3. ASSUME ListModels PROVE GoodWorkers'
    BY <1>3, SameGood DEF ListModels, modelVars
  <1>4. ASSUME VerifyRead PROVE GoodWorkers'
    BY <1>4, SameGood DEF VerifyRead, modelVars
  <1>5. ASSUME VerifyWrite PROVE GoodWorkers'
    BY <1>5, SameGood DEF VerifyWrite, modelVars
  <1>6. ASSUME NEW j \in Jobs, Cancel(j) PROVE GoodWorkers'
    <2>1. \A v \in Workers :
              /\ worker'[v].pc = worker[v].pc /\ worker'[v].part = worker[v].part
              /\ worker'[v].entry = worker[v].entry
              /\ worker'[v].source = worker[v].source
      <3> TAKE v \in Workers
      <3>1. \/ worker'[v] = worker[v]
            \/ worker'[v] = [worker[v] EXCEPT !.token = TRUE]
        BY <1>6 DEF Cancel
      <3> QED BY <1>0, <3>1 DEF WorkersTyped, Worker
    <2>2. UNCHANGED drive
      BY <1>6 DEF Cancel, modelVars
    <2> QED BY <2>1, <2>2 DEF GoodWorkers, GoodRecord
  <1>7. ASSUME ModelChanges PROVE GoodWorkers'
    BY <1>7, LaterGood
  <1>8. ASSUME Crash PROVE GoodWorkers'
    <2>1. \A v \in Workers : worker'[v].pc = "idle"
      BY <1>8 DEF Crash, IdleWorker
    <2> QED BY <2>1 DEF GoodWorkers, GoodRecord
  <1>9. ASSUME Restart PROVE GoodWorkers'
    BY <1>9, SameGood DEF Restart, modelVars
  <1>10. ASSUME NEW f \in Files, SnapshotChanges(f) PROVE GoodWorkers'
    BY <1>10, SameGood DEF SnapshotChanges, modelVars
  <1>11. ASSUME NEW j \in Jobs, NEW f \in Files, OrphanEnds(j, f)
         PROVE GoodWorkers'
    BY <1>11, SameGood DEF OrphanEnds, modelVars
  <1>12. ASSUME NEW w \in Workers, Raise(w) PROVE GoodWorkers'
    <2>1. Handler(w) \notin Copying
      BY DEF Handler, Copying
    <2> QED BY <1>12, <1>0, <2>1, GoGood, IdleGood DEF Raise, modelVars
  <1>13. ASSUME NEW w \in Workers, NEW call \in submitted, Take(w, call)
         PROVE GoodWorkers'
    <2> DEFINE r == [IdleWorker EXCEPT !.pc = "begin", !.job = call.job,
                                       !.entry = call.token]
    <2>1. r.pc = "begin"
      BY IdleTyped DEF Worker
    <2>2. worker' = [worker EXCEPT ![w] = r] /\ UNCHANGED drive
      BY <1>13 DEF Take
    <2> HIDE DEF r
    <2> QED BY <1>0, <2>1, <2>2, RecordGood DEF Copying
  <1>14. ASSUME NEW w \in Workers, Complete(w) PROVE GoodWorkers'
    BY <1>14, <1>0, IdleGood DEF Complete, modelVars
  <1>15. ASSUME NEW w \in Workers, Fail(w) PROVE GoodWorkers'
    BY <1>15, <1>0, IdleGood DEF Fail, modelVars
  <1>16. ASSUME NEW w \in Workers, BeginDownload(w) PROVE GoodWorkers'
    <2>0. worker[w] \in Worker
      BY <1>0 DEF WorkersTyped
    <2>1. CASE Idle(w)
      BY <1>16, <2>1, <1>0, IdleGood DEF BeginDownload
    <2>2. CASE worker' = [worker EXCEPT ![w] = [@ EXCEPT !.pc = "complete",
                                                        !.entry = NoFile]]
      <3> DEFINE r == [worker[w] EXCEPT !.pc = "complete", !.entry = NoFile]
      <3>1. r.pc = "complete" /\ worker' = [worker EXCEPT ![w] = r]
        BY <2>0, <2>2, <1>0 DEF Worker, WorkersTyped
      <3> HIDE DEF r
      <3> QED BY <1>16, <3>1, <1>0, RecordGood DEF BeginDownload, Copying
    <2>3. CASE worker' = [worker EXCEPT ![w] =
                             [@ EXCEPT !.pc = "get", !.entry = drive,
                                       !.preserve = SavedLocalMatches]]
      <3> DEFINE r == [worker[w] EXCEPT !.pc = "get", !.entry = drive,
                                        !.preserve = SavedLocalMatches]
      <3>1. r.pc = "get" /\ r.entry = drive
        BY <2>0 DEF Worker
      <3>2. worker' = [worker EXCEPT ![w] = r]
        BY <2>3, <1>0 DEF WorkersTyped
      <3> HIDE DEF r
      <3>4. GoodRecord(r, drive)
        BY <3>1, <1>a DEF GoodRecord
      <3> QED BY <1>16, <3>2, <3>4, <1>0, RecordGood DEF BeginDownload
    <2> QED BY <1>16, <2>1, <2>2, <2>3 DEF BeginDownload
  <1>17. ASSUME NEW w \in Workers, RunDownload(w) PROVE GoodWorkers'
    <2>0. worker[w] \in Worker
      BY <1>0 DEF WorkersTyped
    <2>1. GoodRecord(worker[w], drive) /\ worker[w].pc = "get"
      BY <1>17 DEF RunDownload, GoodWorkers, At, SetRunning
    <2>2. CASE Go(w, "fetch")
      <3> DEFINE r == [worker[w] EXCEPT !.pc = "fetch"]
      <3>1. /\ r.pc = "fetch" /\ r.entry = worker[w].entry
            /\ r.part = worker[w].part
        BY <2>0 DEF Worker
      <3>2. worker' = [worker EXCEPT ![w] = r]
        BY <2>2, <1>0 DEF Go, WorkersTyped
      <3> HIDE DEF r
      <3>3. GoodRecord(r, drive)
        BY <2>1, <3>1 DEF GoodRecord
      <3> QED BY <1>17, <3>2, <3>3, <1>0, RecordGood DEF RunDownload, modelVars
    <2> QED BY <1>17, <2>2 DEF RunDownload
  <1>18. ASSUME NEW w \in Workers, Fetch(w) PROVE GoodWorkers'
    <2>0. worker[w] \in Worker
      BY <1>0 DEF WorkersTyped
    <2>1. GoodRecord(worker[w], drive) /\ worker[w].pc = "fetch"
      BY <1>18 DEF Fetch, GoodWorkers, At
    <2>2. CASE Go(w, "loseModel")
      BY <1>18, <2>2, <1>0, GoGood DEF Fetch, modelVars, Copying
    <2>3. CASE worker' = [worker EXCEPT ![w] =
                             [@ EXCEPT !.pc = "fetching", !.source = drive,
                                       !.part = NoFile,
                                       !.attempt = worker[w].attempt + 1]]
      <3> DEFINE r == [worker[w] EXCEPT
                          !.pc = "fetching", !.source = drive,
                          !.part = NoFile, !.attempt = worker[w].attempt + 1]
      <3>1. r.pc = "fetching" /\ r.entry = worker[w].entry /\ r.source = drive
        BY <2>0 DEF Worker
      <3>2. worker' = [worker EXCEPT ![w] = r]
        BY <2>3, <1>0 DEF WorkersTyped
      <3> HIDE DEF r
      <3>4. GoodRecord(r, drive)
        BY <2>1, <3>1, <1>a DEF GoodRecord
      <3> QED BY <1>18, <3>2, <3>4, <1>0, RecordGood DEF Fetch, modelVars
    <2> QED BY <1>18, <2>2, <2>3 DEF Fetch
  <1>19. ASSUME NEW w \in Workers, Fetched(w) PROVE GoodWorkers'
    <2>0. worker[w] \in Worker
      BY <1>0 DEF WorkersTyped
    <2>1. GoodRecord(worker[w], drive) /\ worker[w].pc = "fetching"
      BY <1>19 DEF Fetched, GoodWorkers, At
    <2> DEFINE part == IF drive = worker[w].source THEN drive ELSE Torn
    <2>2. CASE Go(w, "loseModel")
      BY <1>19, <2>2, <1>0, GoGood DEF Fetched, modelVars, Copying
    <2>3. CASE Go(w, "fetch")
      <3> DEFINE r == [worker[w] EXCEPT !.pc = "fetch"]
      <3>1. /\ r.pc = "fetch" /\ r.entry = worker[w].entry
            /\ r.part = worker[w].part
        BY <2>0 DEF Worker
      <3>2. worker' = [worker EXCEPT ![w] = r]
        BY <2>3, <1>0 DEF Go, WorkersTyped
      <3> HIDE DEF r
      <3>3. GoodRecord(r, drive)
        BY <2>1, <3>1 DEF GoodRecord
      <3> QED BY <1>19, <3>2, <3>3, <1>0, RecordGood DEF Fetched, modelVars
    <2>4. CASE worker' = [worker EXCEPT ![w] =
                             [@ EXCEPT !.pc = "compare", !.part = part,
                                       !.source = NoFile, !.attempt = 0]]
      <3> DEFINE r == [worker[w] EXCEPT !.pc = "compare", !.part = part,
                                        !.source = NoFile, !.attempt = 0]
      <3>1. r.pc = "compare" /\ r.entry = worker[w].entry /\ r.part = part
        BY <2>0 DEF Worker
      <3>2. worker' = [worker EXCEPT ![w] = r]
        BY <2>4, <1>0 DEF WorkersTyped
      <3>3. /\ drive \in Nat /\ drive # Torn
            /\ worker[w].entry \in Nat /\ worker[w].source \in Nat
        BY <1>0, <2>0, Contents DEF ModelTyped, Worker
      <3>4. part = Torn => worker[w].entry < drive
        BY <2>1, <3>3 DEF GoodRecord
      <3> HIDE DEF r, part
      <3>5. GoodRecord(r, drive)
        BY <2>1, <3>1, <3>4 DEF GoodRecord
      <3> QED BY <1>19, <3>2, <3>5, <1>0, RecordGood DEF Fetched, modelVars
    <2>5. \/ Go(w, "loseModel") \/ Go(w, "fetch")
          \/ worker' = [worker EXCEPT ![w] =
                            [@ EXCEPT !.pc = "compare", !.part = part,
                                      !.source = NoFile, !.attempt = 0]]
      BY <1>19 DEF Fetched
    <2> QED BY <2>2, <2>3, <2>4, <2>5
  <1>20. ASSUME NEW w \in Workers, Compare(w) PROVE GoodWorkers'
    <2>0. worker[w] \in Worker
      BY <1>0 DEF WorkersTyped
    <2>1. GoodRecord(worker[w], drive) /\ worker[w].pc = "compare"
      BY <1>20 DEF Compare, GoodWorkers, At
    <2>2. ASSUME NEW label \in {"keep", "replace"}, Go(w, label),
                 drive = worker[w].entry
          PROVE  GoodWorkers'
      <3> DEFINE r == [worker[w] EXCEPT !.pc = label]
      <3>1. r.pc = label /\ r.part = worker[w].part
        BY <2>0 DEF Worker
      <3>2. worker' = [worker EXCEPT ![w] = r]
        BY <2>2, <1>0 DEF Go, WorkersTyped
      <3> HIDE DEF r
      <3>3. worker[w].part # Torn
        BY <2>1, <2>2, <1>a DEF GoodRecord
      <3>4. GoodRecord(r, drive)
        BY <3>1, <3>3 DEF GoodRecord
      <3> QED BY <1>20, <3>2, <3>4, <1>0, RecordGood DEF Compare, modelVars
    <2>3. CASE worker' = [worker EXCEPT ![w] =
                             [@ EXCEPT !.pc = "loseModel", !.changed = TRUE]]
      <3> DEFINE r == [worker[w] EXCEPT !.pc = "loseModel", !.changed = TRUE]
      <3>1. r.pc = "loseModel" /\ worker' = [worker EXCEPT ![w] = r]
        BY <2>0, <2>3, <1>0 DEF Worker, WorkersTyped
      <3> HIDE DEF r
      <3> QED BY <1>20, <3>1, <1>0, RecordGood DEF Compare, modelVars, Copying
    <2> QED BY <1>20, <2>2, <2>3 DEF Compare
  <1>21. ASSUME NEW w \in Workers, KeepBackup(w) PROVE GoodWorkers'
    <2>0. worker[w] \in Worker
      BY <1>0 DEF WorkersTyped
    <2>1. GoodRecord(worker[w], drive) /\ worker[w].pc = "keep"
      BY <1>21 DEF KeepBackup, GoodWorkers, At
    <2>2. CASE Go(w, "loseModel")
      BY <1>21, <2>2, <1>0, GoGood DEF KeepBackup, Copying
    <2>3. CASE Go(w, "replace")
      <3> DEFINE r == [worker[w] EXCEPT !.pc = "replace"]
      <3>1. /\ r.pc = "replace" /\ r.entry = worker[w].entry
            /\ r.part = worker[w].part
        BY <2>0 DEF Worker
      <3>2. worker' = [worker EXCEPT ![w] = r]
        BY <2>3, <1>0 DEF Go, WorkersTyped
      <3> HIDE DEF r
      <3>3. GoodRecord(r, drive)
        BY <2>1, <3>1 DEF GoodRecord
      <3> QED BY <1>21, <3>2, <3>3, <1>0, RecordGood DEF KeepBackup
    <2> QED BY <1>21, <2>2, <2>3 DEF KeepBackup
  <1>22. ASSUME NEW w \in Workers, Replace(w) PROVE GoodWorkers'
    <2>0. worker[w] \in Worker
      BY <1>0 DEF WorkersTyped
    <2>1. GoodRecord(worker[w], drive) /\ worker[w].pc = "replace"
      BY <1>22 DEF Replace, GoodWorkers, At
    <2>2. CASE Go(w, "commit")
      <3> DEFINE r == [worker[w] EXCEPT !.pc = "commit"]
      <3>1. /\ r.pc = "commit" /\ r.entry = worker[w].entry
            /\ r.part = worker[w].part
        BY <2>0 DEF Worker
      <3>2. worker' = [worker EXCEPT ![w] = r]
        BY <2>2, <1>0 DEF Go, WorkersTyped
      <3> HIDE DEF r
      <3>3. GoodRecord(r, drive)
        BY <2>1, <3>1 DEF GoodRecord
      <3> QED BY <1>22, <3>2, <3>3, <1>0, RecordGood DEF Replace
    <2> QED BY <1>22, <2>2 DEF Replace
  <1>23. ASSUME NEW w \in Workers, CommitModel(w) PROVE GoodWorkers'
    BY <1>23, <1>0, GoGood DEF CommitModel, modelVars, Copying
  <1>24. ASSUME NEW w \in Workers, Undo(w) PROVE GoodWorkers'
    BY <1>24, <1>0, GoGood DEF Undo, modelVars, Copying
  <1>25. ASSUME NEW w \in Workers, Restore(w) PROVE GoodWorkers'
    BY <1>25, <1>0, GoGood DEF Restore, modelVars, Copying
  <1>26. ASSUME NEW w \in Workers, DropBackup(w) PROVE GoodWorkers'
    BY <1>26, <1>0, GoGood DEF DropBackup, modelVars, Copying
  <1>27. ASSUME NEW w \in Workers, LoseModel(w) PROVE GoodWorkers'
    BY <1>27, <1>0, GoGood DEF LoseModel, modelVars, Copying
  <1>28. ASSUME NEW w \in Workers, AllSent(w) PROVE GoodWorkers'
    BY <1>28, <1>0, GoGood DEF AllSent, modelVars, Copying
  <1>29. ASSUME NEW w \in Workers, RecordEntries(w) PROVE GoodWorkers'
    BY <1>29, <1>0, GoGood DEF RecordEntries, modelVars, Copying
  <1>30. ASSUME NEW w \in Workers, SendProvisional(w) PROVE GoodWorkers'
    BY <1>30, <1>0, GoGood
    DEF SendProvisional, modelVars, Copying, CopyManifest
  <1>31. ASSUME NEW w \in Workers, SendFinal(w) PROVE GoodWorkers'
    BY <1>31, <1>0, GoGood DEF SendFinal, modelVars, Copying, CopyManifest
  <1>32. ASSUME NEW w \in Workers, Validate(w) PROVE GoodWorkers'
    BY <1>32, <1>0, GoGood DEF Validate, modelVars, Copying
  <1>33. ASSUME NEW w \in Workers, BeginUpload(w) PROVE GoodWorkers'
    <2>0. worker[w] \in Worker
      BY <1>0 DEF WorkersTyped
    <2>1. CASE Idle(w)
      BY <1>33, <2>1, <1>0, IdleGood DEF BeginUpload, modelVars
    <2>2. CASE worker' = [worker EXCEPT ![w] =
                             [@ EXCEPT !.pc = "send", !.plan = UploadPlan,
                                       !.todo = Files]]
      <3> DEFINE r == [worker[w] EXCEPT !.pc = "send", !.plan = UploadPlan,
                                        !.todo = Files]
      <3>1. r.pc = "send" /\ worker' = [worker EXCEPT ![w] = r]
        BY <2>0, <2>2, <1>0 DEF Worker, WorkersTyped
      <3> HIDE DEF r
      <3> QED BY <1>33, <3>1, <1>0, RecordGood
      DEF BeginUpload, modelVars, Copying
    <2> QED BY <1>33, <2>1, <2>2 DEF BeginUpload
  <1>34. ASSUME NEW w \in Workers, Verify(w) PROVE GoodWorkers'
    <2>0. worker[w] \in Worker
      BY <1>0 DEF WorkersTyped
    <2>1. CASE Go(w, "fail")
      BY <1>34, <2>1, <1>0, GoGood DEF Verify, modelVars, Copying
    <2>2. CASE worker' = [worker EXCEPT ![w] = [@ EXCEPT !.pc = "entries",
                                                  !.level = VerifiedLevel]]
      <3> DEFINE r == [worker[w] EXCEPT !.pc = "entries", !.level = VerifiedLevel]
      <3>1. r.pc = "entries" /\ worker' = [worker EXCEPT ![w] = r]
        BY <2>0, <2>2, <1>0 DEF Worker, WorkersTyped
      <3> HIDE DEF r
      <3> QED BY <1>34, <3>1, <1>0, RecordGood DEF Verify, modelVars, Copying
    <2> QED BY <1>34, <2>1, <2>2 DEF Verify
  <1>35. ASSUME NEW w \in Workers, Check(w) PROVE GoodWorkers'
    <2>0. worker[w] \in Worker
      BY <1>0 DEF WorkersTyped
    <2>1. CASE Go(w, "fail")
      BY <1>35, <2>1, <1>0, GoGood DEF Check, modelVars, Copying
    <2>2. ASSUME NEW label \in {"final", "validate"}, NEW level,
                 worker' = [worker EXCEPT ![w] =
                               [@ EXCEPT !.pc = label, !.level = level]]
          PROVE  GoodWorkers'
      <3> DEFINE r == [worker[w] EXCEPT !.pc = label, !.level = level]
      <3>1. r.pc = label /\ worker' = [worker EXCEPT ![w] = r]
        BY <2>0, <2>2, <1>0 DEF Worker, WorkersTyped
      <3> HIDE DEF r
      <3> QED BY <1>35, <3>1, <1>0, RecordGood DEF Check, modelVars, Copying
    <2> QED BY <1>35, <2>1, <2>2 DEF Check
  <1>36. ASSUME NEW w \in Workers, NEW f \in Files, Send(w, f)
         PROVE GoodWorkers'
    <2>0. worker[w] \in Worker
      BY <1>0 DEF WorkersTyped
    <2>1. CASE worker' = [worker EXCEPT ![w] = [@ EXCEPT !.pc = "fail",
                                                        !.token = TRUE]]
      <3> DEFINE r == [worker[w] EXCEPT !.pc = "fail", !.token = TRUE]
      <3>1. r.pc = "fail" /\ worker' = [worker EXCEPT ![w] = r]
        BY <2>0, <2>1, <1>0 DEF Worker, WorkersTyped
      <3> HIDE DEF r
      <3> QED BY <1>36, <3>1, <1>0, RecordGood DEF Send, modelVars, Copying
    <2>2. CASE worker' = [worker EXCEPT ![w] =
                             [@ EXCEPT !.todo = worker[w].todo \ {f},
                                       !.plan = CopyLater(w, f)]]
      <3> DEFINE r == [worker[w] EXCEPT !.todo = worker[w].todo \ {f},
                                        !.plan = CopyLater(w, f)]
      <3>1. r.pc = "send" /\ worker' = [worker EXCEPT ![w] = r]
        BY <1>36, <2>0, <2>2, <1>0 DEF Worker, WorkersTyped, Send, At
      <3> HIDE DEF r
      <3> QED BY <1>36, <3>1, <1>0, RecordGood DEF Send, modelVars, Copying
    <2>3. CASE worker' = [worker EXCEPT ![w] =
                             [@ EXCEPT !.pc = "sending", !.file = {f}]]
      <3> DEFINE r == [worker[w] EXCEPT !.pc = "sending", !.file = {f}]
      <3>1. r.pc = "sending" /\ worker' = [worker EXCEPT ![w] = r]
        BY <2>0, <2>3, <1>0 DEF Worker, WorkersTyped
      <3> HIDE DEF r
      <3> QED BY <1>36, <3>1, <1>0, RecordGood DEF Send, modelVars, Copying
    <2> QED BY <1>36, <2>1, <2>2, <2>3 DEF Send
  <1>37. ASSUME NEW w \in Workers, NEW f \in Files, Sent(w, f)
         PROVE GoodWorkers'
    <2>0. worker[w] \in Worker
      BY <1>0 DEF WorkersTyped
    <2>1. PICK zero \in BOOLEAN :
              worker' = [worker EXCEPT ![w] =
                            [@ EXCEPT !.pc = IF zero THEN "send" ELSE "fail",
                                      !.todo = worker[w].todo \ {f},
                                      !.file = {}, !.plan = CopyLater(w, f)]]
      BY <1>37 DEF Sent
    <2> DEFINE label == IF zero THEN "send" ELSE "fail"
    <2> DEFINE r == [worker[w] EXCEPT
                        !.pc = label, !.todo = worker[w].todo \ {f},
                        !.file = {}, !.plan = CopyLater(w, f)]
    <2>2. r.pc = label /\ label \notin Copying
      BY <2>0 DEF Worker, Copying
    <2>3. worker' = [worker EXCEPT ![w] = r]
      BY <2>1, <1>0 DEF WorkersTyped
    <2> HIDE DEF r
    <2> QED BY <1>37, <2>2, <2>3, <1>0, RecordGood DEF Sent, modelVars
  <1> QED
    BY <1>1, <1>2, <1>3, <1>4, <1>5, <1>6, <1>7, <1>8, <1>9, <1>10, <1>11,
       <1>12, <1>13, <1>14, <1>15, <1>16, <1>17, <1>18, <1>19, <1>20, <1>21,
       <1>22, <1>23, <1>24, <1>25, <1>26, <1>27, <1>28, <1>29, <1>30, <1>31,
       <1>32, <1>33, <1>34, <1>35, <1>36, <1>37
    DEF Next, Call, Environment, WorkerStep, DownloadStep, UploadStep

-----------------------------------------------------------------------------
(* the files and the row *)

FilesWhole == VerifierIsWhole /\ DestinationWhole

\* What a step may write is whole if what it reads is.
LEMMA FilesStep ==
    ASSUME Shapes, GoodWorkers, FilesWhole, Next PROVE FilesWhole'
  <1>0. WorkersTyped /\ ModelTyped /\ NoFile # Torn
    BY Contents DEF Shapes
  <1>a. ASSUME UNCHANGED <<model, dest, backup, verifier>> PROVE FilesWhole'
    BY <1>a DEF FilesWhole, VerifierIsWhole, DestinationWhole
  <1>b. ASSUME model'.sha # Torn, dest' # Torn, UNCHANGED verifier,
               \A j \in Jobs : backup'[j] # Torn
        PROVE  FilesWhole'
    BY <1>b DEF FilesWhole, VerifierIsWhole, DestinationWhole
  <1>c. /\ model.sha # Torn /\ dest # Torn /\ verifier.sha # Torn
        /\ \A j \in Jobs : backup[j] # Torn
    BY DEF FilesWhole, VerifierIsWhole, DestinationWhole
  <1>1. ASSUME StartDownload PROVE FilesWhole'
    BY <1>1, <1>a DEF StartDownload, modelVars
  <1>2. ASSUME StartUpload PROVE FilesWhole'
    BY <1>2, <1>a DEF StartUpload, modelVars
  <1>3. ASSUME ListModels PROVE FilesWhole'
    <2>1. model'.sha = model.sha
      BY <1>3, <1>0 DEF ListModels, ModelTyped, Model
    <2> QED BY <1>3, <1>b, <1>c, <2>1 DEF ListModels
  <1>4. ASSUME VerifyRead PROVE FilesWhole'
    <2>1. model'.sha = model.sha /\ UNCHANGED <<dest, backup>>
      BY <1>4, <1>0 DEF VerifyRead, ModelTyped, Model
    <2>2. verifier'.sha \in {verifier.sha, dest}
      BY <1>4 DEF VerifyRead
    <2> QED BY <1>c, <2>1, <2>2
    DEF FilesWhole, VerifierIsWhole, DestinationWhole
  <1>5. ASSUME VerifyWrite PROVE FilesWhole'
    <2>1. model'.sha = verifier.sha /\ UNCHANGED <<dest, backup>>
      BY <1>5, <1>0 DEF VerifyWrite, ModelTyped, Model
    <2>2. verifier'.sha = NoFile
      BY <1>5 DEF VerifyWrite, NoVerifier
    <2> QED BY <1>0, <1>c, <2>1, <2>2
            DEF FilesWhole, VerifierIsWhole, DestinationWhole
  <1>6. ASSUME NEW j \in Jobs, Cancel(j) PROVE FilesWhole'
    BY <1>6, <1>a DEF Cancel, modelVars
  <1>7. ASSUME ModelChanges PROVE FilesWhole'
    BY <1>7, <1>a DEF ModelChanges, modelVars
  <1>8. ASSUME Crash PROVE FilesWhole'
    <2>1. UNCHANGED <<model, dest, backup>> /\ verifier'.sha = NoFile
      BY <1>8 DEF Crash, NoVerifier
    <2> QED BY <1>0, <1>c, <2>1
            DEF FilesWhole, VerifierIsWhole, DestinationWhole
  <1>9. ASSUME Restart PROVE FilesWhole'
    BY <1>9, <1>a DEF Restart, modelVars
  <1>10. ASSUME NEW f \in Files, SnapshotChanges(f) PROVE FilesWhole'
    BY <1>10, <1>a DEF SnapshotChanges, modelVars
  <1>11. ASSUME NEW j \in Jobs, NEW f \in Files, OrphanEnds(j, f)
         PROVE FilesWhole'
    BY <1>11, <1>a DEF OrphanEnds, modelVars
  <1>12. ASSUME NEW w \in Workers, Raise(w) PROVE FilesWhole'
    BY <1>12, <1>a DEF Raise, modelVars
  <1>13. ASSUME NEW w \in Workers, NEW call \in submitted, Take(w, call)
         PROVE FilesWhole'
    BY <1>13, <1>a DEF Take, modelVars
  <1>14. ASSUME NEW w \in Workers, Complete(w) PROVE FilesWhole'
    BY <1>14, <1>a DEF Complete, modelVars
  <1>15. ASSUME NEW w \in Workers, Fail(w) PROVE FilesWhole'
    BY <1>15, <1>a DEF Fail, modelVars
  <1>16. ASSUME NEW w \in Workers, BeginDownload(w) PROVE FilesWhole'
    <2>1. model'.sha \in {model.sha, dest}
      BY <1>16, <1>0 DEF BeginDownload, ModelTyped, Model
    <2> QED BY <1>16, <1>b, <1>c, <2>1 DEF BeginDownload
  <1>17. ASSUME NEW w \in Workers, RunDownload(w) PROVE FilesWhole'
    BY <1>17, <1>a DEF RunDownload, modelVars
  <1>18. ASSUME NEW w \in Workers, Fetch(w) PROVE FilesWhole'
    BY <1>18, <1>a DEF Fetch, modelVars
  <1>19. ASSUME NEW w \in Workers, Fetched(w) PROVE FilesWhole'
    BY <1>19, <1>a DEF Fetched, modelVars
  <1>20. ASSUME NEW w \in Workers, Compare(w) PROVE FilesWhole'
    BY <1>20, <1>a DEF Compare, modelVars
  <1>21. ASSUME NEW w \in Workers, KeepBackup(w) PROVE FilesWhole'
    <2>1. worker[w].job \in Jobs
      BY <1>21, <1>0 DEF KeepBackup, At, WorkersTyped
    <2>2. dest' # Torn /\ \A j \in Jobs : backup'[j] # Torn
      BY <1>21, <1>0, <1>c, <2>1 DEF KeepBackup, ModelTyped
    <2> QED BY <1>21, <1>b, <1>c, <2>2 DEF KeepBackup
  <1>22. ASSUME NEW w \in Workers, Replace(w) PROVE FilesWhole'
    <2>1. worker[w].part # Torn
      BY <1>22 DEF Replace, At, GoodWorkers, GoodRecord
    <2> QED BY <1>22, <1>b, <1>c, <2>1 DEF Replace
  <1>23. ASSUME NEW w \in Workers, CommitModel(w) PROVE FilesWhole'
    <2>1. worker[w].part # Torn
      BY <1>23 DEF CommitModel, At, GoodWorkers, GoodRecord
    <2>2. model'.sha \in {model.sha, worker[w].part}
      BY <1>23, <1>0 DEF CommitModel, ModelTyped, Model
    <2> QED BY <1>23, <1>b, <1>c, <2>1, <2>2 DEF CommitModel
  <1>24. ASSUME NEW w \in Workers, Undo(w) PROVE FilesWhole'
    BY <1>24, <1>0, <1>b, <1>c DEF Undo
  <1>25. ASSUME NEW w \in Workers, Restore(w) PROVE FilesWhole'
    <2>1. worker[w].job \in Jobs
      BY <1>25, <1>0 DEF Restore, At, WorkersTyped
    <2>2. dest' # Torn /\ \A j \in Jobs : backup'[j] # Torn
      BY <1>25, <1>0, <1>c, <2>1 DEF Restore, ModelTyped
    <2> QED BY <1>25, <1>b, <1>c, <2>2 DEF Restore
  <1>26. ASSUME NEW w \in Workers, DropBackup(w) PROVE FilesWhole'
    <2>1. \A j \in Jobs : backup'[j] # Torn
      BY <1>26, <1>0, <1>c DEF DropBackup, ModelTyped
    <2> QED BY <1>26, <1>b, <1>c, <2>1 DEF DropBackup
  <1>27. ASSUME NEW w \in Workers, LoseModel(w) PROVE FilesWhole'
    <2>1. model'.sha = model.sha
      BY <1>27, <1>0 DEF LoseModel, ModelTyped, Model
    <2> QED BY <1>27, <1>b, <1>c, <2>1 DEF LoseModel
  <1>28. ASSUME NEW w \in Workers, BeginUpload(w) PROVE FilesWhole'
    BY <1>28, <1>a DEF BeginUpload, modelVars
  <1>29. ASSUME NEW w \in Workers, AllSent(w) PROVE FilesWhole'
    BY <1>29, <1>a DEF AllSent, modelVars
  <1>30. ASSUME NEW w \in Workers, Verify(w) PROVE FilesWhole'
    BY <1>30, <1>a DEF Verify, modelVars
  <1>31. ASSUME NEW w \in Workers, RecordEntries(w) PROVE FilesWhole'
    BY <1>31, <1>a DEF RecordEntries, modelVars
  <1>32. ASSUME NEW w \in Workers, SendProvisional(w) PROVE FilesWhole'
    BY <1>32, <1>a DEF SendProvisional, modelVars, CopyManifest
  <1>33. ASSUME NEW w \in Workers, Check(w) PROVE FilesWhole'
    BY <1>33, <1>a DEF Check, modelVars
  <1>34. ASSUME NEW w \in Workers, SendFinal(w) PROVE FilesWhole'
    BY <1>34, <1>a DEF SendFinal, modelVars, CopyManifest
  <1>35. ASSUME NEW w \in Workers, Validate(w) PROVE FilesWhole'
    BY <1>35, <1>a DEF Validate, modelVars
  <1>36. ASSUME NEW w \in Workers, NEW f \in Files, Send(w, f)
         PROVE FilesWhole'
    BY <1>36, <1>a DEF Send, modelVars
  <1>37. ASSUME NEW w \in Workers, NEW f \in Files, Sent(w, f)
         PROVE FilesWhole'
    BY <1>37, <1>a DEF Sent, modelVars
  <1> QED
    BY <1>1, <1>2, <1>3, <1>4, <1>5, <1>6, <1>7, <1>8, <1>9, <1>10, <1>11,
       <1>12, <1>13, <1>14, <1>15, <1>16, <1>17, <1>18, <1>19, <1>20, <1>21,
       <1>22, <1>23, <1>24, <1>25, <1>26, <1>27, <1>28, <1>29, <1>30, <1>31,
       <1>32, <1>33, <1>34, <1>35, <1>36, <1>37
    DEF Next, Call, Environment, WorkerStep, DownloadStep, UploadStep

-----------------------------------------------------------------------------
(* the theorems *)

LEMMA Inductive == Spec => []IInv
  <1>1. Init => IInv
    BY InitIInv
  <1>2. IInv /\ [Next]_vars => IInv'
    <2> SUFFICES ASSUME IInv, [Next]_vars PROVE IInv'
      OBVIOUS
    <2>1. Shapes /\ GoodWorkers /\ FilesWhole
      BY ShapesAreTypes DEF IInv, FilesWhole
    <2>2. CASE Next
      <3>1. Shapes' /\ GoodWorkers' /\ FilesWhole'
        BY <2>1, <2>2, TypeStep, GoodStep, FilesStep
      <3>2. Shapes' => TypeOK' /\ Tries'
        BY DEF Shapes, WorkersTyped, ModelTyped, RowsTyped, RemoteTyped,
               OthersTyped, TypeOK
      <3> QED BY <3>1, <3>2 DEF IInv, FilesWhole
    <2>3. CASE UNCHANGED vars
      <3> USE <2>3 DEF vars
      <3>1. TypeOK' /\ Tries'
        BY DEF IInv, TypeOK, Tries
      <3>2. GoodWorkers' /\ VerifierIsWhole' /\ DestinationWhole'
        BY DEF IInv, GoodWorkers, GoodRecord, VerifierIsWhole, DestinationWhole
      <3> QED BY <3>1, <3>2 DEF IInv
    <2> QED BY <2>2, <2>3
  <1> QED BY <1>1, <1>2, PTL DEF Spec

\* Every variable keeps its type: threads hold jobs that exist, and the version
\* that a manifest, a row or a file names is one.  (StorageService)
THEOREM TypeCorrect == Spec => []TypeOK
  BY Inductive, PTL DEF IInv

\* No file of the model, no backup and no digest of its row is ever a mixture
\* of two versions, however many threads, jobs, calls, changes of the remote
\* and crashes there are, and with or without hashes at the remote: what was
\* read while the remote changed is thrown away by the second look at the
\* remote.  (_copy_model_with_retry)
THEOREM DestinationIsWhole == Spec => []DestinationWhole
  BY Inductive, PTL DEF IInv

-----------------------------------------------------------------------------
(* whose job is whose *)

\* w works at a job.
Active(w) == worker[w].pc # "idle"

\* A job is in the queue or with one thread, once, and then its row is taken.
Owned ==
    /\ \A w \in Workers : Active(w) => job[worker[w].job].status # "none"
    /\ \A c \in submitted : job[c.job].status # "none"
    /\ \A v, w \in Workers :
           Active(v) /\ Active(w) /\ worker[v].job = worker[w].job => v = w
    /\ \A w \in Workers, c \in submitted : Active(w) => c.job # worker[w].job
    /\ \A c, d \in submitted : c.job = d.job => c = d
    /\ ~up => \A w \in Workers : ~Active(w)

\* What a step keeps of the rows that are taken: their kind, and RUNNING unless
\* the thread of the job ends it, or the application starts.
Ends(j) ==
    \E w \in Workers :
        Active(w) /\ worker[w].job = j /\ worker'[w].pc = "idle"
RowsStay ==
    \A j \in Jobs :
        /\ job[j].status # "none"
               => job'[j].status # "none" /\ job'[j].kind = job[j].kind
        /\ job[j].status = "running"
               => job'[j].status = "running" \/ Ends(j) \/ ~up

\* A thread that works afterwards worked before, at the same job.
WorksOn(v) ==
    worker'[v].pc # "idle" => Active(v) /\ worker'[v].job = worker[v].job
Usual ==
    /\ RowsStay /\ submitted' \subseteq submitted /\ UNCHANGED settings
    /\ \A v \in Workers : WorksOn(v)
    /\ ~up' => \A v \in Workers : worker'[v].pc = "idle"

LEMMA OneWorksOn ==
    ASSUME NEW w \in Workers, NEW r, WorkersTyped,
           worker' = [worker EXCEPT ![w] = r],
           r.pc # "idle" => Active(w) /\ r.job = worker[w].job
    PROVE  \A v \in Workers : WorksOn(v)
  BY DEF WorkersTyped, WorksOn, Active

LEMMA GoWorksOn ==
    ASSUME NEW w \in Workers, NEW label, WorkersTyped, Active(w), Go(w, label)
    PROVE  \A v \in Workers : WorksOn(v)
  BY DEF WorkersTyped, WorksOn, Active, Go, Worker

LEMMA IdleWorksOn ==
    ASSUME NEW w \in Workers, WorkersTyped, Idle(w)
    PROVE  \A v \in Workers : WorksOn(v)
  BY DEF WorkersTyped, WorksOn, Active, Idle, IdleWorker

\* The pid of a row, and its end, and its start
LEMMA PidStays ==
    ASSUME RowsTyped, NEW w \in Workers, NEW pid, SetPid(w, pid) PROVE RowsStay
  BY DEF RowsTyped, Row, SetPid, RowsStay

LEMMA RunningStays ==
    ASSUME RowsTyped, NEW w \in Workers, NEW label, SetRunning(w, label)
    PROVE  RowsStay
  BY DEF RowsTyped, Row, SetRunning, RowsStay

LEMMA FinishStays ==
    ASSUME RowsTyped, WorkersTyped, NEW w \in Workers, Active(w), Idle(w),
           NEW status, status # "none", Finish(w, status)
    PROVE  RowsStay
  <1>1. worker'[w].pc = "idle"
    BY DEF WorkersTyped, Idle, IdleWorker
  <1>2. \A j \in Jobs : j # worker[w].job => job'[j] = job[j]
    BY DEF Finish, RowsTyped
  <1>3. \A j \in Jobs : j = worker[w].job =>
            /\ job'[j].kind = job[j].kind /\ job'[j].status = status
            /\ Ends(j)
    BY <1>1 DEF Finish, RowsTyped, Row, Ends
  <1> QED BY <1>2, <1>3 DEF RowsStay

\* A step that is no call of create_job and no start of a thread is Usual.
LEMMA UsualStep ==
    ASSUME Shapes, Owned, Next,
           ~StartDownload, ~StartUpload,
           \A w \in Workers, call \in submitted : ~Take(w, call)
    PROVE  Usual
  <1>0. WorkersTyped /\ RowsTyped
    BY DEF Shapes
  <1>w. worker \in [Workers -> Worker]
    BY <1>0 DEF WorkersTyped
  <1>a. UNCHANGED job => RowsStay
    BY DEF RowsStay
  <1>b. UNCHANGED worker => \A v \in Workers : WorksOn(v)
    BY DEF WorksOn, Active

  <1>1. ASSUME ListModels PROVE Usual
    <2> QED BY <1>1, <1>0, <1>a, <1>b DEF Usual, fixed, ListModels
  <1>2. ASSUME VerifyRead PROVE Usual
    <2> QED BY <1>2, <1>0, <1>a, <1>b DEF Usual, fixed, VerifyRead
  <1>3. ASSUME VerifyWrite PROVE Usual
    <2> QED BY <1>3, <1>0, <1>a, <1>b DEF Usual, fixed, VerifyWrite
  <1>4. ASSUME NEW j \in Jobs, Cancel(j) PROVE Usual
    <2>1. RowsStay
      BY <1>4, <1>0 DEF Cancel, RowsTyped, Row, RowsStay
    <2>2. \A v \in Workers : WorksOn(v)
      BY <1>4, <1>w DEF Cancel, Worker, WorksOn, Active
    <2> QED BY <1>4, <1>0, <2>1, <2>2, <1>a, <1>b DEF Usual, fixed, Cancel
  <1>5. ASSUME ModelChanges PROVE Usual
    <2>1. up' = up /\ UNCHANGED worker
      BY <1>5 DEF ModelChanges, fixed
    <2> QED BY <1>5, <1>0, <2>1, <1>a, <1>b
    DEF Usual, fixed, ModelChanges, Owned, Active
  <1>6. ASSUME Crash PROVE Usual
    <2>1. /\ \A v \in Workers : WorksOn(v)
          /\ \A v \in Workers : worker'[v].pc = "idle"
      BY <1>6 DEF Crash, WorksOn, IdleWorker
    <2> QED BY <1>6, <1>0, <2>1, <1>a, <1>b DEF Usual, fixed, Crash
  <1>7. ASSUME Restart PROVE Usual
    <2>1. \A j \in Jobs : job'[j].kind = job[j].kind
      BY <1>7, <1>0 DEF Restart, RowsTyped, Row
    <2>2. \A j \in Jobs : job'[j].status \in {job[j].status, "stale"}
      BY <1>7, <1>0 DEF Restart, RowsTyped, Row
    <2>3. ~up
      BY <1>7 DEF Restart
    <2>4. RowsStay
      BY <2>1, <2>2, <2>3 DEF RowsStay
    <2> QED BY <1>7, <1>0, <2>1, <2>2, <2>3, <2>4, <1>a, <1>b
    DEF Usual, fixed, Restart
  <1>8. ASSUME NEW f \in Files, SnapshotChanges(f) PROVE Usual
    <2> QED BY <1>8, <1>0, <1>a, <1>b
    DEF Usual, fixed, SnapshotChanges, Owned, Active
  <1>9. ASSUME NEW j \in Jobs, NEW f \in Files, OrphanEnds(j, f) PROVE Usual
    <2> QED BY <1>9, <1>0, <1>a, <1>b
    DEF Usual, fixed, OrphanEnds, Owned, Active
  <1>10. ASSUME NEW w \in Workers, Raise(w) PROVE Usual
    <2>1. \A v \in Workers : WorksOn(v)
      BY <1>10, <1>0, GoWorksOn, IdleWorksOn DEF Raise, At, Active
    <2>2. RowsStay
      <3>1. CASE SetPid(w, FALSE)
        BY <3>1, <1>0, PidStays
      <3>2. CASE UNCHANGED job
        BY <3>2 DEF RowsStay
      <3> QED BY <1>10, <3>1, <3>2 DEF Raise
    <2> QED BY <1>10, <1>0, <2>1, <2>2, <1>a, <1>b DEF Usual, fixed, Raise
  <1>11. ASSUME NEW w \in Workers, Complete(w) PROVE Usual
    <2>1. \A v \in Workers : WorksOn(v)
      BY <1>11, <1>0, GoWorksOn, IdleWorksOn DEF Complete, At, Active
    <2>2. RowsStay
      BY <1>11, <1>0, FinishStays DEF Complete, At, Active
    <2> QED BY <1>11, <1>0, <2>1, <2>2, <1>a, <1>b
    DEF Usual, fixed, Complete, At
  <1>12. ASSUME NEW w \in Workers, Fail(w) PROVE Usual
    <2>1. \A v \in Workers : WorksOn(v)
      BY <1>12, <1>0, GoWorksOn, IdleWorksOn DEF Fail, At, Active
    <2>2. RowsStay
      BY <1>12, <1>0, FinishStays DEF Fail, At, Active, EndStatus
    <2> QED BY <1>12, <1>0, <2>1, <2>2, <1>a, <1>b DEF Usual, fixed, Fail, At
  <1>13. ASSUME NEW w \in Workers, BeginDownload(w) PROVE Usual
    <2>1. Active(w) /\ worker[w] \in Worker
      BY <1>13, <1>w DEF BeginDownload, At, Active
    <2>2. \A v \in Workers : v # w => worker'[v] = worker[v]
      BY <1>13, <1>w DEF BeginDownload, Go, Idle
    <2>3. Idle(w) => worker'[w].pc = "idle"
      BY <1>w DEF Idle, IdleWorker
    <2>4. ASSUME worker' = [worker EXCEPT ![w] = [@ EXCEPT
                            !.pc = "complete", !.entry = NoFile]]
         PROVE  worker'[w].job = worker[w].job
      BY <2>4, <2>1, <1>w DEF Worker, Go
    <2>5. ASSUME worker' = [worker EXCEPT ![w] = [@ EXCEPT
                            !.pc = "get", !.entry = drive,
                            !.preserve = SavedLocalMatches]]
         PROVE  worker'[w].job = worker[w].job
      BY <2>5, <2>1, <1>w DEF Worker, Go
    <2>6. worker'[w].pc # "idle" => worker'[w].job = worker[w].job
      BY <1>13, <2>3, <2>4, <2>5, Labels DEF BeginDownload
    <2>7. \A v \in Workers : WorksOn(v)
      BY <2>1, <2>2, <2>6 DEF WorksOn, Active
    <2> QED BY <1>13, <1>0, <2>1, <2>2, <2>3, <2>4, <2>5, <2>6, <2>7, <1>a,
               <1>b
    DEF Usual, fixed, BeginDownload, At
  <1>14. ASSUME NEW w \in Workers, RunDownload(w) PROVE Usual
    <2>1. At(w, "get")
      BY <1>14 DEF RunDownload, SetRunning
    <2>2. \A v \in Workers : WorksOn(v)
      BY <1>14, <1>0, <2>1, GoWorksOn DEF RunDownload, At, Active
    <2>3. RowsStay
      BY <1>14, <1>0, RunningStays DEF RunDownload
    <2> QED BY <1>14, <1>0, <2>1, <2>2, <2>3, <1>a, <1>b
    DEF Usual, fixed, RunDownload, At
  <1>15. ASSUME NEW w \in Workers, Fetch(w) PROVE Usual
    <2>1. Active(w) /\ worker[w] \in Worker
      BY <1>15, <1>w DEF Fetch, At, Active
    <2>2. \A v \in Workers : v # w => worker'[v] = worker[v]
      BY <1>15, <1>w DEF Fetch, Go, Idle
    <2>3. ASSUME NEW label \in Label, Go(w, label)
         PROVE  worker'[w].job = worker[w].job
      BY <2>3, <2>1, <1>w DEF Worker, Go
    <2>4. ASSUME worker' = [worker EXCEPT ![w] = [@ EXCEPT
                            !.pc = "fetching", !.source = drive,
                            !.part = NoFile, !.attempt = worker[w].attempt + 1]]
         PROVE  worker'[w].job = worker[w].job
      BY <2>4, <2>1, <1>w DEF Worker, Go
    <2>5. worker'[w].job = worker[w].job
      BY <1>15, <2>3, <2>4, Labels DEF Fetch
    <2>6. \A v \in Workers : WorksOn(v)
      BY <2>1, <2>2, <2>5 DEF WorksOn, Active
    <2>7. RowsStay
      BY <1>15, <1>0, <1>a, PidStays DEF Fetch
    <2> QED BY <1>15, <1>0, <2>1, <2>2, <2>6, <2>7, <1>a, <1>b
    DEF Usual, fixed, Fetch, At
  <1>16. ASSUME NEW w \in Workers, Fetched(w) PROVE Usual
    <2>1. Active(w) /\ worker[w] \in Worker
      BY <1>16, <1>w DEF Fetched, At, Active
    <2>2. \A v \in Workers : v # w => worker'[v] = worker[v]
      BY <1>16, <1>w DEF Fetched, Go, Idle
    <2>3. ASSUME NEW label \in Label, Go(w, label)
         PROVE  worker'[w].job = worker[w].job
      BY <2>3, <2>1, <1>w DEF Worker, Go
    <2>4. ASSUME worker' = [worker EXCEPT ![w] = [@ EXCEPT
                            !.pc = "compare", 
                            !.part = IF drive = worker[w].source THEN drive
                                     ELSE Torn,
                            !.source = NoFile, !.attempt = 0]]
         PROVE  worker'[w].job = worker[w].job
      BY <2>4, <2>1, <1>w DEF Worker, Go
    <2>5. worker'[w].pc # "idle" => worker'[w].job = worker[w].job
      BY <1>16, <2>3, <2>4, Labels DEF Fetched
    <2>6. \A v \in Workers : WorksOn(v)
      BY <2>1, <2>2, <2>5 DEF WorksOn, Active
    <2>7. RowsStay
      BY <1>16, <1>0, <1>a, PidStays DEF Fetched
    <2> QED BY <1>16, <1>0, <2>1, <2>2, <2>3, <2>4, <2>5, <2>6, <2>7, <1>a,
               <1>b
    DEF Usual, fixed, Fetched, At
  <1>17. ASSUME NEW w \in Workers, Compare(w) PROVE Usual
    <2>1. Active(w) /\ worker[w] \in Worker
      BY <1>17, <1>w DEF Compare, At, Active
    <2>2. \A v \in Workers : v # w => worker'[v] = worker[v]
      BY <1>17, <1>w DEF Compare, Go, Idle
    <2>3. ASSUME NEW label \in Label, Go(w, label)
         PROVE  worker'[w].job = worker[w].job
      BY <2>3, <2>1, <1>w DEF Worker, Go
    <2>4. ASSUME worker' = [worker EXCEPT ![w] = [@ EXCEPT
                            !.pc = "loseModel", !.changed = TRUE]]
         PROVE  worker'[w].job = worker[w].job
      BY <2>4, <2>1, <1>w DEF Worker, Go
    <2>5. worker'[w].pc # "idle" => worker'[w].job = worker[w].job
      BY <1>17, <2>3, <2>4, Labels DEF Compare
    <2>6. \A v \in Workers : WorksOn(v)
      BY <2>1, <2>2, <2>5 DEF WorksOn, Active
    <2> QED BY <1>17, <1>0, <2>1, <2>2, <2>3, <2>4, <2>5, <2>6, <1>a, <1>b
    DEF Usual, fixed, Compare, At
  <1>18. ASSUME NEW w \in Workers, KeepBackup(w) PROVE Usual
    <2>1. \A v \in Workers : WorksOn(v)
      BY <1>18, <1>0, GoWorksOn, IdleWorksOn DEF KeepBackup, At, Active
    <2> QED BY <1>18, <1>0, <2>1, <1>a, <1>b DEF Usual, fixed, KeepBackup, At
  <1>19. ASSUME NEW w \in Workers, Replace(w) PROVE Usual
    <2>1. \A v \in Workers : WorksOn(v)
      BY <1>19, <1>0, GoWorksOn, IdleWorksOn DEF Replace, At, Active
    <2> QED BY <1>19, <1>0, <2>1, <1>a, <1>b DEF Usual, fixed, Replace, At
  <1>20. ASSUME NEW w \in Workers, CommitModel(w) PROVE Usual
    <2>1. \A v \in Workers : WorksOn(v)
      BY <1>20, <1>0, GoWorksOn, IdleWorksOn DEF CommitModel, At, Active
    <2> QED BY <1>20, <1>0, <2>1, <1>a, <1>b DEF Usual, fixed, CommitModel, At
  <1>21. ASSUME NEW w \in Workers, Undo(w) PROVE Usual
    <2>1. \A v \in Workers : WorksOn(v)
      BY <1>21, <1>0, GoWorksOn, IdleWorksOn DEF Undo, At, Active
    <2> QED BY <1>21, <1>0, <2>1, <1>a, <1>b DEF Usual, fixed, Undo, At
  <1>22. ASSUME NEW w \in Workers, Restore(w) PROVE Usual
    <2>1. \A v \in Workers : WorksOn(v)
      BY <1>22, <1>0, GoWorksOn, IdleWorksOn DEF Restore, At, Active
    <2> QED BY <1>22, <1>0, <2>1, <1>a, <1>b DEF Usual, fixed, Restore, At
  <1>23. ASSUME NEW w \in Workers, DropBackup(w) PROVE Usual
    <2>1. \A v \in Workers : WorksOn(v)
      BY <1>23, <1>0, GoWorksOn, IdleWorksOn DEF DropBackup, At, Active
    <2> QED BY <1>23, <1>0, <2>1, <1>a, <1>b DEF Usual, fixed, DropBackup, At
  <1>24. ASSUME NEW w \in Workers, LoseModel(w) PROVE Usual
    <2>1. \A v \in Workers : WorksOn(v)
      BY <1>24, <1>0, GoWorksOn, IdleWorksOn DEF LoseModel, At, Active
    <2> QED BY <1>24, <1>0, <2>1, <1>a, <1>b DEF Usual, fixed, LoseModel, At
  <1>25. ASSUME NEW w \in Workers, BeginUpload(w) PROVE Usual
    <2>1. Active(w) /\ worker[w] \in Worker
      BY <1>25, <1>w DEF BeginUpload, At, Active
    <2>2. \A v \in Workers : v # w => worker'[v] = worker[v]
      BY <1>25, <1>w DEF BeginUpload, Go, Idle
    <2>3. Idle(w) => worker'[w].pc = "idle"
      BY <1>w DEF Idle, IdleWorker
    <2>4. ASSUME worker' = [worker EXCEPT ![w] = [@ EXCEPT
                            !.pc = "send", !.plan = UploadPlan,
                            !.todo = Files]]
         PROVE  worker'[w].job = worker[w].job
      BY <2>4, <2>1, <1>w DEF Worker, Go
    <2>5. worker'[w].pc # "idle" => worker'[w].job = worker[w].job
      BY <1>25, <2>3, <2>4, Labels DEF BeginUpload
    <2>6. \A v \in Workers : WorksOn(v)
      BY <2>1, <2>2, <2>5 DEF WorksOn, Active
    <2>7. RowsStay
      BY <1>25, <1>0, <1>a, RunningStays DEF BeginUpload
    <2> QED BY <1>25, <1>0, <2>1, <2>2, <2>3, <2>4, <2>5, <2>6, <2>7, <1>a,
               <1>b
    DEF Usual, fixed, BeginUpload, At
  <1>26. ASSUME NEW w \in Workers, AllSent(w) PROVE Usual
    <2>1. \A v \in Workers : WorksOn(v)
      BY <1>26, <1>0, GoWorksOn, IdleWorksOn DEF AllSent, At, Active
    <2> QED BY <1>26, <1>0, <2>1, <1>a, <1>b DEF Usual, fixed, AllSent, At
  <1>27. ASSUME NEW w \in Workers, Verify(w) PROVE Usual
    <2>1. Active(w) /\ worker[w] \in Worker
      BY <1>27, <1>w DEF Verify, At, Active
    <2>2. \A v \in Workers : v # w => worker'[v] = worker[v]
      BY <1>27, <1>w DEF Verify, Go, Idle
    <2>3. ASSUME NEW label \in Label, Go(w, label)
         PROVE  worker'[w].job = worker[w].job
      BY <2>3, <2>1, <1>w DEF Worker, Go
    <2>4. ASSUME worker' = [worker EXCEPT ![w] = [@ EXCEPT
                            !.pc = "entries", !.level = VerifiedLevel]]
         PROVE  worker'[w].job = worker[w].job
      BY <2>4, <2>1, <1>w DEF Worker, Go
    <2>5. worker'[w].job = worker[w].job
      BY <1>27, <2>3, <2>4, Labels DEF Verify
    <2>6. \A v \in Workers : WorksOn(v)
      BY <2>1, <2>2, <2>5 DEF WorksOn, Active
    <2> QED BY <1>27, <1>0, <2>1, <2>2, <2>6, <1>a, <1>b
    DEF Usual, fixed, Verify, At
  <1>28. ASSUME NEW w \in Workers, RecordEntries(w) PROVE Usual
    <2>1. \A v \in Workers : WorksOn(v)
      BY <1>28, <1>0, GoWorksOn, IdleWorksOn DEF RecordEntries, At, Active
    <2> QED BY <1>28, <1>0, <2>1, <1>a, <1>b
    DEF Usual, fixed, RecordEntries, At
  <1>29. ASSUME NEW w \in Workers, SendProvisional(w) PROVE Usual
    <2>1. \A v \in Workers : WorksOn(v)
      BY <1>29, <1>0, GoWorksOn, IdleWorksOn
      DEF SendProvisional, CopyManifest, At, Active
    <2> QED BY <1>29, <1>0, <2>1, <1>a, <1>b
    DEF Usual, fixed, SendProvisional, CopyManifest, At
  <1>30. ASSUME NEW w \in Workers, Check(w) PROVE Usual
    <2>1. Active(w) /\ worker[w] \in Worker
      BY <1>30, <1>w DEF Check, At, Active
    <2>2. \A v \in Workers : v # w => worker'[v] = worker[v]
      BY <1>30, <1>w DEF Check, Go, Idle
    <2>3. ASSUME Go(w, "fail")
         PROVE  worker'[w].job = worker[w].job
      BY <2>3, <2>1, <1>w DEF Worker, Go
    <2>4. ASSUME worker' = [worker EXCEPT ![w] = [@ EXCEPT
                            !.pc = IF settings.verify = "size_and_manifest"
                                   THEN "final" ELSE "validate",
                            !.level = IF settings.verify = "size_and_manifest"
                                      THEN settings.verify
                                      ELSE worker[w].level]]
         PROVE  worker'[w].job = worker[w].job
      BY <2>4, <2>1, <1>w DEF Worker, Go
    <2>5. worker'[w].pc # "idle" => worker'[w].job = worker[w].job
      BY <1>30, <2>3, <2>4, Labels DEF Check
    <2>6. \A v \in Workers : WorksOn(v)
      BY <2>1, <2>2, <2>5 DEF WorksOn, Active
    <2> QED BY <1>30, <1>0, <2>1, <2>2, <2>3, <2>4, <2>5, <2>6, <1>a, <1>b
    DEF Usual, fixed, Check, At
  <1>31. ASSUME NEW w \in Workers, SendFinal(w) PROVE Usual
    <2>1. \A v \in Workers : WorksOn(v)
      BY <1>31, <1>0, GoWorksOn, IdleWorksOn
      DEF SendFinal, CopyManifest, At, Active
    <2> QED BY <1>31, <1>0, <2>1, <1>a, <1>b
    DEF Usual, fixed, SendFinal, CopyManifest, At
  <1>32. ASSUME NEW w \in Workers, Validate(w) PROVE Usual
    <2>1. \A v \in Workers : WorksOn(v)
      BY <1>32, <1>0, GoWorksOn, IdleWorksOn DEF Validate, At, Active
    <2> QED BY <1>32, <1>0, <2>1, <1>a, <1>b DEF Usual, fixed, Validate, At
  <1>33. ASSUME NEW w \in Workers, NEW f \in Files, Send(w, f) PROVE Usual
    <2>1. Active(w) /\ worker[w] \in Worker
      BY <1>33, <1>w DEF Send, At, Active
    <2>2. \A v \in Workers : v # w => worker'[v] = worker[v]
      BY <1>33, <1>w DEF Send, Go, Idle
    <2>3. ASSUME worker' = [worker EXCEPT ![w] = [@ EXCEPT
                            !.pc = "fail", !.token = TRUE]]
         PROVE  worker'[w].job = worker[w].job
      BY <2>3, <2>1, <1>w DEF Worker, Go
    <2>4. ASSUME worker' = [worker EXCEPT ![w] = [@ EXCEPT
                            !.todo = worker[w].todo \ {f},
                            !.plan = CopyLater(w, f)]]
         PROVE  worker'[w].job = worker[w].job
      BY <2>4, <2>1, <1>w DEF Worker, Go
    <2>5. ASSUME worker' = [worker EXCEPT ![w] = [@ EXCEPT
                            !.pc = "sending", !.file = {f}]]
         PROVE  worker'[w].job = worker[w].job
      BY <2>5, <2>1, <1>w DEF Worker, Go
    <2>6. worker'[w].pc # "idle" => worker'[w].job = worker[w].job
      BY <1>33, <2>3, <2>4, <2>5, Labels DEF Send
    <2>7. \A v \in Workers : WorksOn(v)
      BY <2>1, <2>2, <2>6 DEF WorksOn, Active
    <2>8. RowsStay
      BY <1>33, <1>0, <1>a, PidStays DEF Send
    <2> QED BY <1>33, <1>0, <2>1, <2>2, <2>3, <2>4, <2>5, <2>6, <2>7, <2>8,
               <1>a, <1>b
    DEF Usual, fixed, Send, At
  <1>34. ASSUME NEW w \in Workers, NEW f \in Files, Sent(w, f) PROVE Usual
    <2>1. Active(w) /\ worker[w] \in Worker
      BY <1>34, <1>w DEF Sent, At, Active
    <2>2. \A v \in Workers : v # w => worker'[v] = worker[v]
      BY <1>34, <1>w DEF Sent, Go, Idle
    <2>3. worker'[w].pc # "idle" => worker'[w].job = worker[w].job
      BY <1>34, <2>1, <1>w DEF Sent, Worker, Go, Idle, IdleWorker
    <2>4. \A v \in Workers : WorksOn(v)
      BY <2>1, <2>2, <2>3 DEF WorksOn, Active
    <2>5. RowsStay
      BY <1>34, <1>0, PidStays DEF Sent
    <2> QED BY <1>34, <1>0, <2>1, <2>2, <2>3, <2>4, <2>5, <1>a, <1>b
    DEF Usual, fixed, Sent, At
  <1> QED
    BY <1>1, <1>2, <1>3, <1>4, <1>5, <1>6, <1>7, <1>8, <1>9, <1>10, <1>11,
       <1>12, <1>13, <1>14, <1>15, <1>16, <1>17, <1>18, <1>19, <1>20, <1>21,
       <1>22, <1>23, <1>24, <1>25, <1>26, <1>27, <1>28, <1>29, <1>30, <1>31,
       <1>32, <1>33, <1>34
    DEF Next, Call, Environment, WorkerStep, DownloadStep, UploadStep

\* A call of create_job fills a row that was free.
LEMMA SubmittedRow ==
    ASSUME RowsTyped, NEW kind \in Kind, NEW token \in Content,
           Submitted(kind, token)
    PROVE  \E j \in Jobs :
              /\ job[j].status = "none"
              /\ job'[j].status # "none"
              /\ \A k \in Jobs : k # j => job'[k] = job[k]
              /\ submitted' = submitted \cup {[job |-> j, token |-> token]}
  BY DEF Submitted, RowsTyped, Row, NoRow

\* The rows that were taken stay as they are, and the threads too.
LEMMA SubmittedStep ==
    ASSUME Shapes, Owned, NEW kind \in Kind, NEW token \in Content,
           Submitted(kind, token), up, UNCHANGED <<worker, up>>
    PROVE  Owned' /\ RowsStay
  <1>1. RowsTyped /\ WorkersTyped
    BY DEF Shapes
  <1>2. PICK j \in Jobs :
            /\ job[j].status = "none"
            /\ job'[j].status # "none"
            /\ \A k \in Jobs : k # j => job'[k] = job[k]
            /\ submitted' = submitted \cup {[job |-> j, token |-> token]}
    BY <1>1, SubmittedRow
  <1>3. \A k \in Jobs : job[k].status # "none" => job'[k] = job[k]
    BY <1>2
  <1>4. RowsStay
    BY <1>3 DEF RowsStay
  <1>5. \A w \in Workers : Active(w) => worker[w].job \in Jobs
    BY <1>1 DEF WorkersTyped, Active
  <1>6. \A c \in submitted : c.job \in Jobs
    BY <1>1 DEF RowsTyped, Submission
  <1> DEFINE new == [job |-> j, token |-> token]
  <1>7. new.job = j
    OBVIOUS
  <1>8. \A c \in submitted' : c \in submitted \/ c = new
    BY <1>2
  <1>9. UNCHANGED worker /\ up'
    OBVIOUS
  <1> HIDE DEF new
  <1>10. \A w \in Workers : Active(w)' = Active(w)
    BY <1>9 DEF Active
  <1>11. \A w \in Workers : Active(w)' => job'[worker'[w].job].status # "none"
    BY <1>3, <1>5, <1>9, <1>10 DEF Owned
  <1>12. \A c \in submitted' : job'[c.job].status # "none"
    BY <1>2, <1>3, <1>6, <1>7, <1>8 DEF Owned
  <1>13. \A v, w \in Workers :
            (/\ Active(v)' /\ Active(w)'
             /\ worker'[v].job = worker'[w].job) => v = w
    BY <1>9, <1>10 DEF Owned
  <1>14. \A w \in Workers, c \in submitted' :
            Active(w)' => c.job # worker'[w].job
    BY <1>2, <1>7, <1>8, <1>9, <1>10 DEF Owned
  <1>15. \A c, d \in submitted' : c.job = d.job => c = d
    BY <1>2, <1>7, <1>8 DEF Owned
  <1> QED BY <1>4, <1>9, <1>11, <1>12, <1>13, <1>14, <1>15 DEF Owned

\* The kinds and the tokens of the calls.
LEMMA CallsTyped ==
    ASSUME Shapes
    PROVE  /\ StartDownload =>
                  \E token \in Content : Submitted("download", token)
           /\ StartUpload => Submitted("upload", NoFile)
           /\ NoFile \in Content /\ "download" \in Kind /\ "upload" \in Kind
  BY Contents DEF Shapes, ModelTyped, StartDownload, StartUpload, Kind

LEMMA StartStep ==
    ASSUME Shapes, Owned, StartDownload \/ StartUpload
    PROVE  Owned' /\ RowsStay
  <1>1. UNCHANGED <<worker, up>> /\ up
    BY DEF StartDownload, StartUpload
  <1>2. \E kind \in Kind, token \in Content : Submitted(kind, token)
    BY CallsTyped
  <1> QED BY <1>1, <1>2, SubmittedStep

\* What a thread takes is not in the queue any more.
LEMMA TakeStep ==
    ASSUME Shapes, Owned, NEW w \in Workers, NEW call \in submitted,
           Take(w, call)
    PROVE  /\ Owned' /\ UNCHANGED job
           /\ worker'[w].job = call.job /\ worker'[w].pc = "begin"
           /\ \A v \in Workers : v # w => worker'[v] = worker[v]
  <1>1. worker \in [Workers -> Worker]
    BY DEF Shapes, WorkersTyped
  <1>2. worker'[w].job = call.job /\ worker'[w].pc = "begin"
    BY <1>1 DEF Take, IdleWorker
  <1>3. \A v \in Workers : v # w => worker'[v] = worker[v]
    BY <1>1 DEF Take
  <1>4. /\ UNCHANGED <<job, up>> /\ submitted' = submitted \ {call}
        /\ up /\ ~Active(w)
    BY DEF Take, Active
  <1>5. \A v \in Workers : v # w => Active(v)' = Active(v)
    BY <1>3 DEF Active
  <1>6. \A v \in Workers : Active(v)' => job[worker'[v].job].status # "none"
    BY <1>2, <1>3, <1>5 DEF Owned
  <1>7. \A u, v \in Workers :
            (/\ Active(u)' /\ Active(v)'
             /\ worker'[u].job = worker'[v].job) => u = v
    BY <1>2, <1>3, <1>5 DEF Owned
  <1>8. \A v \in Workers, c \in submitted' :
            Active(v)' => c.job # worker'[v].job
    BY <1>2, <1>3, <1>4, <1>5 DEF Owned
  <1>9. \A c \in submitted' : job[c.job].status # "none"
    BY <1>4 DEF Owned
  <1>10. \A c, d \in submitted' : c.job = d.job => c = d
    BY <1>4 DEF Owned
  <1> QED BY <1>2, <1>3, <1>4, <1>6, <1>7, <1>8, <1>9, <1>10 DEF Owned

LEMMA OwnedUsual ==
    ASSUME Shapes, Owned, Usual PROVE Owned'
  <1>1. \A v \in Workers :
            Active(v)' => Active(v) /\ worker'[v].job = worker[v].job
    BY DEF Usual, WorksOn, Active
  <1>2. \A v \in Workers : Active(v) => worker[v].job \in Jobs
    BY DEF Shapes, WorkersTyped, Active
  <1>3. \A c \in submitted : c.job \in Jobs
    BY DEF Shapes, RowsTyped, Submission
  <1>4. \A j \in Jobs : job[j].status # "none" => job'[j].status # "none"
    BY DEF Usual, RowsStay
  <1>5. \A v \in Workers : Active(v)' => job'[worker'[v].job].status # "none"
    BY <1>1, <1>2, <1>4 DEF Owned
  <1>6. \A c \in submitted' : c \in submitted
    BY DEF Usual
  <1>7. \A c \in submitted' : job'[c.job].status # "none"
    BY <1>3, <1>4, <1>6 DEF Owned
  <1>8. \A u, v \in Workers :
            (/\ Active(u)' /\ Active(v)'
             /\ worker'[u].job = worker'[v].job) => u = v
    BY <1>1 DEF Owned
  <1>9. \A v \in Workers, c \in submitted' :
            Active(v)' => c.job # worker'[v].job
    BY <1>1, <1>6 DEF Owned
  <1>10. \A c, d \in submitted' : c.job = d.job => c = d
    BY <1>6 DEF Owned
  <1>11. ~up' => \A v \in Workers : ~Active(v)'
    BY DEF Usual, Active
  <1> QED BY <1>5, <1>7, <1>8, <1>9, <1>10, <1>11 DEF Owned

LEMMA OwnedStep == ASSUME Shapes, Owned, Next PROVE Owned'
  BY StartStep, TakeStep, UsualStep, OwnedUsual

-----------------------------------------------------------------------------
(* what an upload knows *)

\* A hash of every file is compared with the snapshot's.
Hashing ==
    /\ settings.hash
    /\ settings.verify \in {"full_checksum", "remote_hash_and_size"}

\* A worker whose record is r: its label is for jobs of its kind, an upload is
\* RUNNING, and after it compared the hashes the remote has been whole.
Fits(r) ==
    /\ r.pc \in DownloadLabel => job[r.job].kind = "download"
    /\ r.pc \in UploadLabel => job[r.job].kind = "upload"
    /\ r.pc \in UploadLabel \cup {"complete"} /\ job[r.job].kind = "upload"
           => job[r.job].status = "running"
    /\ /\ r.pc \in {"entries", "provisional", "check", "final", "validate",
                    "complete"}
       /\ job[r.job].kind = "upload" /\ Hashing
       => whole[r.job]

AllFit == \A w \in Workers : Active(w) => Fits(worker[w])

LEMMA LabelKinds ==
    /\ \A l \in DownloadLabel :
           l \notin UploadLabel
           /\ l \notin {"idle", "begin", "complete", "fail", "entries",
                        "provisional", "check", "final", "validate"}
    /\ \A l \in UploadLabel : l \notin {"idle", "begin", "complete", "fail"}
  BY DEF DownloadLabel, UploadLabel

\* A row that is RUNNING stays so while its thread works.
LEMMA StillRunning ==
    ASSUME Shapes, Owned, RowsStay, NEW v \in Workers, Active(v),
           worker'[v].pc # "idle"
    PROVE  LET j == worker[v].job IN
           /\ j \in Jobs /\ job'[j].kind = job[j].kind
           /\ job[j].status = "running" => job'[j].status = "running"
  <1>1. worker[v].job \in Jobs
    BY DEF Shapes, WorkersTyped, Active
  <1>2. ~Ends(worker[v].job) /\ up
    BY DEF Owned, Ends
  <1> QED BY <1>1, <1>2 DEF RowsStay, Owned

\* A worker that only notes that it is cancelled
LEMMA SameFits ==
    ASSUME Shapes, Owned, AllFit, RowsStay, UNCHANGED settings, WatchRemote,
           NEW v \in Workers, Active(v),
           worker'[v].pc = worker[v].pc, worker'[v].job = worker[v].job
    PROVE  Fits(worker[v])'
  <1> DEFINE j == worker[v].job
  <1>1. Fits(worker[v]) /\ worker'[v].pc # "idle"
    BY DEF AllFit, Active
  <1>2. /\ j \in Jobs /\ job'[j].kind = job[j].kind
        /\ job[j].status = "running" => job'[j].status = "running"
    BY <1>1, StillRunning
  <1>3. /\ job'[j].kind = "upload" /\ job'[j].status = "running" /\ whole[j]
        => whole'[j]
    BY <1>2 DEF WatchRemote
  <1>4. Hashing' = Hashing
    BY DEF Hashing
  <1> HIDE DEF j
  <1>5. Fits(worker[v])' <=>
            /\ worker[v].pc \in DownloadLabel => job'[j].kind = "download"
            /\ worker[v].pc \in UploadLabel => job'[j].kind = "upload"
            /\ worker[v].pc \in UploadLabel \cup {"complete"}
                   /\ job'[j].kind = "upload"
                   => job'[j].status = "running"
            /\ /\ worker[v].pc \in {"entries", "provisional", "check", "final",
                                    "validate", "complete"}
               /\ job'[j].kind = "upload" /\ Hashing'
               => whole'[j]
    BY DEF Fits, j
  <1>6. worker[v].pc \in {"entries", "provisional", "check", "final",
                          "validate", "complete"}
        => worker[v].pc \in UploadLabel \cup {"complete"}
    BY DEF UploadLabel
  <1> QED BY <1>1, <1>2, <1>3, <1>4, <1>5, <1>6 DEF Fits, j

\* A step of w at a download
LEMMA DownloadFits ==
    ASSUME Shapes, Owned, RowsStay, NEW w \in Workers, Active(w),
           job[worker[w].job].kind = "download",
           worker'[w].job = worker[w].job,
           worker'[w].pc \in DownloadLabel \cup {"complete", "fail"}
    PROVE  Fits(worker[w])'
  <1>1. worker'[w].pc # "idle" /\ worker'[w].pc \notin UploadLabel
    BY LabelKinds
  <1>2. job'[worker[w].job].kind = "download"
    BY <1>1, StillRunning
  <1> QED BY <1>1, <1>2 DEF Fits

\* A step of w at an upload
LEMMA UploadFits ==
    ASSUME Shapes, Owned, RowsStay, WatchRemote, UNCHANGED settings,
           NEW w \in Workers, Active(w),
           job[worker[w].job].kind = "upload",
           worker'[w].job = worker[w].job,
           worker'[w].pc \in UploadLabel \cup {"complete", "fail"},
           \/ worker'[w].pc = "fail"
           \/ job[worker[w].job].status = "running"
           \/ job'[worker[w].job].status = "running",
           worker'[w].pc \in {"entries", "provisional", "check", "final",
                              "validate", "complete"} /\ Hashing
               => whole[worker[w].job] \/ AllGood(remote')
    PROVE  Fits(worker[w])'
  <1> DEFINE j == worker[w].job
  <1>1. worker'[w].pc # "idle" /\ worker'[w].pc \notin DownloadLabel
    BY LabelKinds
  <1>2. /\ j \in Jobs /\ job'[j].kind = "upload"
        /\ worker'[w].pc # "fail" => job'[j].status = "running"
    BY <1>1, StillRunning
  <1>3. /\ worker'[w].pc \in {"entries", "provisional", "check", "final",
                              "validate", "complete"} /\ Hashing
        => whole'[j]
    BY <1>2 DEF WatchRemote
  <1>4. Hashing' = Hashing
    BY DEF Hashing
  <1>5. worker'[w].pc \in UploadLabel \cup {"complete"}
        => worker'[w].pc # "fail"
    BY LabelKinds
  <1> HIDE DEF j
  <1> QED BY <1>1, <1>2, <1>3, <1>4, <1>5 DEF Fits, j

\* The other workers have what they had.
LEMMA OthersFit ==
    ASSUME Shapes, Owned, AllFit, RowsStay, UNCHANGED settings, WatchRemote,
           NEW w \in Workers,
           \A v \in Workers : v # w => worker'[v] = worker[v],
           worker'[w].pc # "idle" => Fits(worker[w])'
    PROVE  AllFit'
  <1>1. \A v \in Workers : v # w /\ Active(v)' => Fits(worker[v])'
    <2> SUFFICES ASSUME NEW v \in Workers, v # w, Active(v)'
                 PROVE  Fits(worker[v])'
      OBVIOUS
    <2>1. worker'[v] = worker[v] /\ Active(v)
      BY DEF Active
    <2> QED BY <2>1, SameFits
  <1> QED BY <1>1 DEF AllFit, Active

\* No worker goes to another label.
LEMMA NoneMoves ==
    ASSUME Shapes, Owned, AllFit, RowsStay, UNCHANGED settings, WatchRemote,
           \A v \in Workers :
               worker'[v].pc # "idle" =>
                   /\ worker'[v].pc = worker[v].pc
                   /\ worker'[v].job = worker[v].job
    PROVE  AllFit'
  BY SameFits DEF AllFit, Active

LEMMA FitsUsual ==
    ASSUME Shapes, Owned, AllFit, Usual, Next,
           ~StartDownload, ~StartUpload,
           \A w \in Workers, call \in submitted : ~Take(w, call)
    PROVE  AllFit'
  <1>0. /\ RowsStay /\ UNCHANGED settings /\ WatchRemote
        /\ \A v \in Workers : WorksOn(v)
    BY DEF Usual, Next
  <1>w. worker \in [Workers -> Worker] /\ RowsTyped
    BY DEF Shapes, WorkersTyped
  <1>k. \A w \in Workers : Active(w) =>
            job[worker[w].job].kind \in {"download", "upload"}
    BY DEF Shapes, WorkersTyped, RowsTyped, Row, Kind, Active
  <1>f. \A w \in Workers : Active(w) =>
            /\ worker[w].pc \in DownloadLabel
                   => job[worker[w].job].kind = "download"
            /\ worker[w].pc \in UploadLabel =>
                   /\ job[worker[w].job].kind = "upload"
                   /\ job[worker[w].job].status = "running"
    BY DEF AllFit, Fits
  <1>q. ASSUME UNCHANGED worker PROVE AllFit'
    BY <1>q, <1>0, NoneMoves

  <1>1. ASSUME ListModels PROVE AllFit'
    BY <1>1, <1>q DEF ListModels
  <1>2. ASSUME VerifyRead PROVE AllFit'
    BY <1>2, <1>q DEF VerifyRead
  <1>3. ASSUME VerifyWrite PROVE AllFit'
    BY <1>3, <1>q DEF VerifyWrite
  <1>4. ASSUME NEW j \in Jobs, Cancel(j) PROVE AllFit'
    <2>1. \A v \in Workers : /\ worker'[v].pc = worker[v].pc
                             /\ worker'[v].job = worker[v].job
      BY <1>4, <1>w DEF Cancel, Worker
    <2> QED BY <1>0, <2>1, NoneMoves
  <1>5. ASSUME ModelChanges PROVE AllFit'
    BY <1>5, <1>q DEF ModelChanges
  <1>6. ASSUME Crash PROVE AllFit'
    <2>1. \A v \in Workers : worker'[v].pc = "idle"
      BY <1>6 DEF Crash, IdleWorker
    <2> QED BY <1>0, <2>1, NoneMoves
  <1>7. ASSUME Restart PROVE AllFit'
    BY <1>7, <1>q DEF Restart
  <1>8. ASSUME NEW f \in Files, SnapshotChanges(f) PROVE AllFit'
    BY <1>8, <1>q DEF SnapshotChanges
  <1>9. ASSUME NEW j \in Jobs, NEW f \in Files, OrphanEnds(j, f) PROVE AllFit'
    BY <1>9, <1>q DEF OrphanEnds
  <1>10. ASSUME NEW w \in Workers, Raise(w) PROVE AllFit'
    <2>1. Active(w) /\ \A v \in Workers : v # w => worker'[v] = worker[v]
      BY <1>10, <1>w DEF Raise, Go, Idle, Active
    <2>2. worker'[w].pc = Handler(w)
      BY <1>10, <1>w DEF Raise, Go, Idle, IdleWorker, Worker
    <2>3. worker'[w].pc # "idle" => worker'[w].job = worker[w].job
      BY <1>0 DEF WorksOn
    <2>4. CASE job[worker[w].job].kind = "download"
      <3>1. Handler(w) \in {"idle", "undo", "loseModel"}
        BY <2>4 DEF Handler
      <3>2. worker'[w].pc # "idle" => Fits(worker[w])'
        BY <1>0, <2>1, <2>2, <2>3, <2>4, <3>1, DownloadFits DEF DownloadLabel
      <3> QED BY <1>0, <2>1, <3>2, OthersFit
    <2>5. CASE job[worker[w].job].kind = "upload"
      <3>1. worker[w].pc \notin {"replace", "commit"}
        BY <2>1, <2>5, <1>f DEF DownloadLabel
      <3>2. Handler(w) \in {"idle", "fail"}
        BY <2>5, <3>1 DEF Handler
      <3>3. worker'[w].pc # "idle" => Fits(worker[w])'
        BY <1>0, <2>1, <2>2, <2>3, <2>5, <3>2, UploadFits
      <3> QED BY <1>0, <2>1, <3>3, OthersFit
    <2> QED BY <1>k, <2>1, <2>4, <2>5
  <1>11. ASSUME NEW w \in Workers, Complete(w) PROVE AllFit'
    <2>1. Active(w) /\ \A v \in Workers : v # w => worker'[v] = worker[v]
      BY <1>11, <1>w DEF Complete, At, Go, Idle, Active, SetRunning
    <2>2. worker'[w].pc \in {"idle"}
      BY <1>11, <1>w DEF Complete, Go, Idle, IdleWorker, Worker
    <2>3. worker'[w].pc # "idle" => worker'[w].job = worker[w].job
      BY <1>0 DEF WorksOn
    <2> QED BY <1>0, <2>1, <2>2, OthersFit
  <1>12. ASSUME NEW w \in Workers, Fail(w) PROVE AllFit'
    <2>1. Active(w) /\ \A v \in Workers : v # w => worker'[v] = worker[v]
      BY <1>12, <1>w DEF Fail, At, Go, Idle, Active, SetRunning
    <2>2. worker'[w].pc \in {"idle"}
      BY <1>12, <1>w DEF Fail, Go, Idle, IdleWorker, Worker
    <2>3. worker'[w].pc # "idle" => worker'[w].job = worker[w].job
      BY <1>0 DEF WorksOn
    <2> QED BY <1>0, <2>1, <2>2, OthersFit
  <1>13. ASSUME NEW w \in Workers, BeginDownload(w) PROVE AllFit'
    <2>1. Active(w) /\ \A v \in Workers : v # w => worker'[v] = worker[v]
      BY <1>13, <1>w DEF BeginDownload, At, Go, Idle, Active, SetRunning
    <2>2. worker'[w].pc \in {"idle", "complete", "get"}
      <3>1. ASSUME Idle(w)
           PROVE  worker'[w].pc \in {"idle", "complete", "get"}
        BY <3>1, <2>1, <1>w DEF Worker, Go, Idle, IdleWorker
      <3>2. ASSUME worker' = [worker EXCEPT ![w] = [@ EXCEPT
                            !.pc = "complete", !.entry = NoFile]]
           PROVE  worker'[w].pc \in {"idle", "complete", "get"}
        BY <3>2, <2>1, <1>w DEF Worker, Go, Idle, IdleWorker
      <3>3. ASSUME worker' = [worker EXCEPT ![w] = [@ EXCEPT
                            !.pc = "get", !.entry = drive,
                            !.preserve = SavedLocalMatches]]
           PROVE  worker'[w].pc \in {"idle", "complete", "get"}
        BY <3>3, <2>1, <1>w DEF Worker, Go, Idle, IdleWorker
      <3> QED BY <1>13, <3>1, <3>2, <3>3 DEF BeginDownload
    <2>3. worker'[w].pc # "idle" => worker'[w].job = worker[w].job
      BY <1>0 DEF WorksOn
    <2>4. job[worker[w].job].kind = "download"
      BY <1>13, <1>f, <2>1 DEF BeginDownload, At, DownloadLabel, SetRunning
    <2>5. worker'[w].pc # "idle" => Fits(worker[w])'
      BY <1>0, <2>1, <2>2, <2>3, <2>4, DownloadFits DEF DownloadLabel
    <2> QED BY <1>0, <2>1, <2>5, OthersFit
  <1>14. ASSUME NEW w \in Workers, RunDownload(w) PROVE AllFit'
    <2>1. Active(w) /\ \A v \in Workers : v # w => worker'[v] = worker[v]
      BY <1>14, <1>w DEF RunDownload, At, Go, Idle, Active, SetRunning
    <2>2. worker'[w].pc \in {"fetch"}
      BY <1>14, <1>w DEF RunDownload, Go, Idle, IdleWorker, Worker
    <2>3. worker'[w].pc # "idle" => worker'[w].job = worker[w].job
      BY <1>0 DEF WorksOn
    <2>4. job[worker[w].job].kind = "download"
      BY <1>14, <1>f, <2>1 DEF RunDownload, At, DownloadLabel, SetRunning
    <2>5. worker'[w].pc # "idle" => Fits(worker[w])'
      BY <1>0, <2>1, <2>2, <2>3, <2>4, DownloadFits DEF DownloadLabel
    <2> QED BY <1>0, <2>1, <2>5, OthersFit
  <1>15. ASSUME NEW w \in Workers, Fetch(w) PROVE AllFit'
    <2>1. Active(w) /\ \A v \in Workers : v # w => worker'[v] = worker[v]
      BY <1>15, <1>w DEF Fetch, At, Go, Idle, Active, SetRunning
    <2>2. worker'[w].pc \in {"loseModel", "fetching"}
      <3>1. ASSUME Go(w, "loseModel")
           PROVE  worker'[w].pc \in {"loseModel", "fetching"}
        BY <3>1, <2>1, <1>w DEF Worker, Go, Idle, IdleWorker
      <3>2. ASSUME worker' = [worker EXCEPT ![w] = [@ EXCEPT
                            !.pc = "fetching", !.source = drive,
                            !.part = NoFile,
                            !.attempt = worker[w].attempt + 1]]
           PROVE  worker'[w].pc \in {"loseModel", "fetching"}
        BY <3>2, <2>1, <1>w DEF Worker, Go, Idle, IdleWorker
      <3> QED BY <1>15, <3>1, <3>2 DEF Fetch
    <2>3. worker'[w].pc # "idle" => worker'[w].job = worker[w].job
      BY <1>0 DEF WorksOn
    <2>4. job[worker[w].job].kind = "download"
      BY <1>15, <1>f, <2>1 DEF Fetch, At, DownloadLabel, SetRunning
    <2>5. worker'[w].pc # "idle" => Fits(worker[w])'
      BY <1>0, <2>1, <2>2, <2>3, <2>4, DownloadFits DEF DownloadLabel
    <2> QED BY <1>0, <2>1, <2>5, OthersFit
  <1>16. ASSUME NEW w \in Workers, Fetched(w) PROVE AllFit'
    <2>1. Active(w) /\ \A v \in Workers : v # w => worker'[v] = worker[v]
      BY <1>16, <1>w DEF Fetched, At, Go, Idle, Active, SetRunning
    <2>2. worker'[w].pc \in {"compare", "fetch", "loseModel"}
      <3>1. ASSUME NEW label \in {"fetch", "loseModel"}, Go(w, label)
           PROVE  worker'[w].pc \in {"compare", "fetch", "loseModel"}
        BY <3>1, <2>1, <1>w DEF Worker, Go, Idle, IdleWorker
      <3>2. ASSUME worker' = [worker EXCEPT ![w] = [@ EXCEPT
                            !.pc = "compare", 
                            !.part = IF drive = worker[w].source THEN drive
                                     ELSE Torn,
                            !.source = NoFile, !.attempt = 0]]
           PROVE  worker'[w].pc \in {"compare", "fetch", "loseModel"}
        BY <3>2, <2>1, <1>w DEF Worker, Go, Idle, IdleWorker
      <3> QED BY <1>16, <3>1, <3>2 DEF Fetched
    <2>3. worker'[w].pc # "idle" => worker'[w].job = worker[w].job
      BY <1>0 DEF WorksOn
    <2>4. job[worker[w].job].kind = "download"
      BY <1>16, <1>f, <2>1 DEF Fetched, At, DownloadLabel, SetRunning
    <2>5. worker'[w].pc # "idle" => Fits(worker[w])'
      BY <1>0, <2>1, <2>2, <2>3, <2>4, DownloadFits DEF DownloadLabel
    <2> QED BY <1>0, <2>1, <2>5, OthersFit
  <1>17. ASSUME NEW w \in Workers, Compare(w) PROVE AllFit'
    <2>1. Active(w) /\ \A v \in Workers : v # w => worker'[v] = worker[v]
      BY <1>17, <1>w DEF Compare, At, Go, Idle, Active, SetRunning
    <2>2. worker'[w].pc \in {"keep", "replace", "loseModel"}
      <3>1. ASSUME NEW label \in {"keep", "replace"}, Go(w, label)
           PROVE  worker'[w].pc \in {"keep", "replace", "loseModel"}
        BY <3>1, <2>1, <1>w DEF Worker, Go, Idle, IdleWorker
      <3>2. ASSUME worker' = [worker EXCEPT ![w] = [@ EXCEPT
                            !.pc = "loseModel", !.changed = TRUE]]
           PROVE  worker'[w].pc \in {"keep", "replace", "loseModel"}
        BY <3>2, <2>1, <1>w DEF Worker, Go, Idle, IdleWorker
      <3> QED BY <1>17, <3>1, <3>2 DEF Compare
    <2>3. worker'[w].pc # "idle" => worker'[w].job = worker[w].job
      BY <1>0 DEF WorksOn
    <2>4. job[worker[w].job].kind = "download"
      BY <1>17, <1>f, <2>1 DEF Compare, At, DownloadLabel, SetRunning
    <2>5. worker'[w].pc # "idle" => Fits(worker[w])'
      BY <1>0, <2>1, <2>2, <2>3, <2>4, DownloadFits DEF DownloadLabel
    <2> QED BY <1>0, <2>1, <2>5, OthersFit
  <1>18. ASSUME NEW w \in Workers, KeepBackup(w) PROVE AllFit'
    <2>1. Active(w) /\ \A v \in Workers : v # w => worker'[v] = worker[v]
      BY <1>18, <1>w DEF KeepBackup, At, Go, Idle, Active, SetRunning
    <2>2. worker'[w].pc \in {"replace", "loseModel"}
      BY <1>18, <1>w DEF KeepBackup, Go, Idle, IdleWorker, Worker
    <2>3. worker'[w].pc # "idle" => worker'[w].job = worker[w].job
      BY <1>0 DEF WorksOn
    <2>4. job[worker[w].job].kind = "download"
      BY <1>18, <1>f, <2>1 DEF KeepBackup, At, DownloadLabel, SetRunning
    <2>5. worker'[w].pc # "idle" => Fits(worker[w])'
      BY <1>0, <2>1, <2>2, <2>3, <2>4, DownloadFits DEF DownloadLabel
    <2> QED BY <1>0, <2>1, <2>5, OthersFit
  <1>19. ASSUME NEW w \in Workers, Replace(w) PROVE AllFit'
    <2>1. Active(w) /\ \A v \in Workers : v # w => worker'[v] = worker[v]
      BY <1>19, <1>w DEF Replace, At, Go, Idle, Active, SetRunning
    <2>2. worker'[w].pc \in {"commit"}
      BY <1>19, <1>w DEF Replace, Go, Idle, IdleWorker, Worker
    <2>3. worker'[w].pc # "idle" => worker'[w].job = worker[w].job
      BY <1>0 DEF WorksOn
    <2>4. job[worker[w].job].kind = "download"
      BY <1>19, <1>f, <2>1 DEF Replace, At, DownloadLabel, SetRunning
    <2>5. worker'[w].pc # "idle" => Fits(worker[w])'
      BY <1>0, <2>1, <2>2, <2>3, <2>4, DownloadFits DEF DownloadLabel
    <2> QED BY <1>0, <2>1, <2>5, OthersFit
  <1>20. ASSUME NEW w \in Workers, CommitModel(w) PROVE AllFit'
    <2>1. Active(w) /\ \A v \in Workers : v # w => worker'[v] = worker[v]
      BY <1>20, <1>w DEF CommitModel, At, Go, Idle, Active, SetRunning
    <2>2. worker'[w].pc \in {"undo", "drop"}
      BY <1>20, <1>w DEF CommitModel, Go, Idle, IdleWorker, Worker
    <2>3. worker'[w].pc # "idle" => worker'[w].job = worker[w].job
      BY <1>0 DEF WorksOn
    <2>4. job[worker[w].job].kind = "download"
      BY <1>20, <1>f, <2>1 DEF CommitModel, At, DownloadLabel, SetRunning
    <2>5. worker'[w].pc # "idle" => Fits(worker[w])'
      BY <1>0, <2>1, <2>2, <2>3, <2>4, DownloadFits DEF DownloadLabel
    <2> QED BY <1>0, <2>1, <2>5, OthersFit
  <1>21. ASSUME NEW w \in Workers, Undo(w) PROVE AllFit'
    <2>1. Active(w) /\ \A v \in Workers : v # w => worker'[v] = worker[v]
      BY <1>21, <1>w DEF Undo, At, Go, Idle, Active, SetRunning
    <2>2. worker'[w].pc \in {"restore"}
      BY <1>21, <1>w DEF Undo, Go, Idle, IdleWorker, Worker
    <2>3. worker'[w].pc # "idle" => worker'[w].job = worker[w].job
      BY <1>0 DEF WorksOn
    <2>4. job[worker[w].job].kind = "download"
      BY <1>21, <1>f, <2>1 DEF Undo, At, DownloadLabel, SetRunning
    <2>5. worker'[w].pc # "idle" => Fits(worker[w])'
      BY <1>0, <2>1, <2>2, <2>3, <2>4, DownloadFits DEF DownloadLabel
    <2> QED BY <1>0, <2>1, <2>5, OthersFit
  <1>22. ASSUME NEW w \in Workers, Restore(w) PROVE AllFit'
    <2>1. Active(w) /\ \A v \in Workers : v # w => worker'[v] = worker[v]
      BY <1>22, <1>w DEF Restore, At, Go, Idle, Active, SetRunning
    <2>2. worker'[w].pc \in {"loseModel"}
      BY <1>22, <1>w DEF Restore, Go, Idle, IdleWorker, Worker
    <2>3. worker'[w].pc # "idle" => worker'[w].job = worker[w].job
      BY <1>0 DEF WorksOn
    <2>4. job[worker[w].job].kind = "download"
      BY <1>22, <1>f, <2>1 DEF Restore, At, DownloadLabel, SetRunning
    <2>5. worker'[w].pc # "idle" => Fits(worker[w])'
      BY <1>0, <2>1, <2>2, <2>3, <2>4, DownloadFits DEF DownloadLabel
    <2> QED BY <1>0, <2>1, <2>5, OthersFit
  <1>23. ASSUME NEW w \in Workers, DropBackup(w) PROVE AllFit'
    <2>1. Active(w) /\ \A v \in Workers : v # w => worker'[v] = worker[v]
      BY <1>23, <1>w DEF DropBackup, At, Go, Idle, Active, SetRunning
    <2>2. worker'[w].pc \in {"complete"}
      BY <1>23, <1>w DEF DropBackup, Go, Idle, IdleWorker, Worker
    <2>3. worker'[w].pc # "idle" => worker'[w].job = worker[w].job
      BY <1>0 DEF WorksOn
    <2>4. job[worker[w].job].kind = "download"
      BY <1>23, <1>f, <2>1 DEF DropBackup, At, DownloadLabel, SetRunning
    <2>5. worker'[w].pc # "idle" => Fits(worker[w])'
      BY <1>0, <2>1, <2>2, <2>3, <2>4, DownloadFits DEF DownloadLabel
    <2> QED BY <1>0, <2>1, <2>5, OthersFit
  <1>24. ASSUME NEW w \in Workers, LoseModel(w) PROVE AllFit'
    <2>1. Active(w) /\ \A v \in Workers : v # w => worker'[v] = worker[v]
      BY <1>24, <1>w DEF LoseModel, At, Go, Idle, Active, SetRunning
    <2>2. worker'[w].pc \in {"fail"}
      BY <1>24, <1>w DEF LoseModel, Go, Idle, IdleWorker, Worker
    <2>3. worker'[w].pc # "idle" => worker'[w].job = worker[w].job
      BY <1>0 DEF WorksOn
    <2>4. job[worker[w].job].kind = "download"
      BY <1>24, <1>f, <2>1 DEF LoseModel, At, DownloadLabel, SetRunning
    <2>5. worker'[w].pc # "idle" => Fits(worker[w])'
      BY <1>0, <2>1, <2>2, <2>3, <2>4, DownloadFits DEF DownloadLabel
    <2> QED BY <1>0, <2>1, <2>5, OthersFit
  <1>25. ASSUME NEW w \in Workers, BeginUpload(w) PROVE AllFit'
    <2>1. /\ Active(w) /\ job[worker[w].job].kind = "upload"
          /\ \A v \in Workers : v # w => worker'[v] = worker[v]
      BY <1>25, <1>w DEF BeginUpload, At, Idle, Active
    <2>2. worker'[w].pc \in {"idle", "send"}
      <3>1. ASSUME Idle(w)
           PROVE  worker'[w].pc \in {"idle", "send"}
        BY <3>1, <2>1, <1>w DEF Worker, Go, Idle, IdleWorker
      <3>2. ASSUME worker' = [worker EXCEPT ![w] = [@ EXCEPT
                            !.pc = "send", !.plan = UploadPlan,
                            !.todo = Files]]
           PROVE  worker'[w].pc \in {"idle", "send"}
        BY <3>2, <2>1, <1>w DEF Worker, Go, Idle, IdleWorker
      <3> QED BY <1>25, <3>1, <3>2 DEF BeginUpload
    <2>3. worker'[w].pc # "idle" => worker'[w].job = worker[w].job
      BY <1>0 DEF WorksOn
    <2>4. worker[w].job \in Jobs
      BY <2>1 DEF Shapes, WorkersTyped, Active
    <2>5. worker'[w].pc # "idle" => job'[worker[w].job].status = "running"
      BY <1>25, <1>w, <2>4
      DEF BeginUpload, Idle, IdleWorker, SetRunning, RowsTyped, Row
    <2>6. worker'[w].pc # "idle" => Fits(worker[w])'
      BY <1>0, <2>1, <2>2, <2>3, <2>5, UploadFits DEF UploadLabel
    <2> QED BY <1>0, <2>1, <2>6, OthersFit
  <1>26. ASSUME NEW w \in Workers, AllSent(w) PROVE AllFit'
    <2>1. Active(w) /\ \A v \in Workers : v # w => worker'[v] = worker[v]
      BY <1>26, <1>w DEF AllSent, At, Go, Idle, Active, SetRunning
    <2>2. worker'[w].pc \in {"entries", "verify"}
      BY <1>26, <1>w DEF AllSent, Go, Idle, IdleWorker, Worker
    <2>3. worker'[w].pc # "idle" => worker'[w].job = worker[w].job
      BY <1>0 DEF WorksOn
    <2>4. /\ job[worker[w].job].kind = "upload"
          /\ job[worker[w].job].status = "running"
      BY <1>26, <1>f, <2>1 DEF AllSent, At, UploadLabel
    <2>5. worker'[w].pc \in {"entries", "provisional", "check", "final",
                              "validate", "complete"} /\ Hashing
          => whole[worker[w].job] \/ AllGood(remote')
      BY <1>26, <1>w DEF AllSent, Go, Worker, Hashing
    <2>6. worker'[w].pc # "idle" => Fits(worker[w])'
      BY <1>0, <2>1, <2>2, <2>3, <2>4, <2>5, UploadFits DEF UploadLabel
    <2> QED BY <1>0, <2>1, <2>6, OthersFit
  <1>27. ASSUME NEW w \in Workers, Verify(w) PROVE AllFit'
    <2>1. Active(w) /\ \A v \in Workers : v # w => worker'[v] = worker[v]
      BY <1>27, <1>w DEF Verify, At, Go, Idle, Active, SetRunning
    <2>2. worker'[w].pc \in {"entries", "fail"}
      BY <1>27, <1>w DEF Verify, Go, Idle, IdleWorker, Worker
    <2>3. worker'[w].pc # "idle" => worker'[w].job = worker[w].job
      BY <1>0 DEF WorksOn
    <2>4. /\ job[worker[w].job].kind = "upload"
          /\ job[worker[w].job].status = "running"
      BY <1>27, <1>f, <2>1 DEF Verify, At, UploadLabel
    <2>5. worker'[w].pc \in {"entries", "provisional", "check", "final",
                              "validate", "complete"} /\ Hashing
          => whole[worker[w].job] \/ AllGood(remote')
      BY <1>27, <1>w
      DEF Verify, Verified, Go, Worker, Hashing, AllGood, remoteVars
    <2>6. worker'[w].pc # "idle" => Fits(worker[w])'
      BY <1>0, <2>1, <2>2, <2>3, <2>4, <2>5, UploadFits DEF UploadLabel
    <2> QED BY <1>0, <2>1, <2>6, OthersFit
  <1>28. ASSUME NEW w \in Workers, RecordEntries(w) PROVE AllFit'
    <2>1. Active(w) /\ \A v \in Workers : v # w => worker'[v] = worker[v]
      BY <1>28, <1>w DEF RecordEntries, At, Go, Idle, Active, SetRunning
    <2>2. worker'[w].pc \in {"provisional"}
      BY <1>28, <1>w DEF RecordEntries, Go, Idle, IdleWorker, Worker
    <2>3. worker'[w].pc # "idle" => worker'[w].job = worker[w].job
      BY <1>0 DEF WorksOn
    <2>4. /\ job[worker[w].job].kind = "upload"
          /\ job[worker[w].job].status = "running"
      BY <1>28, <1>f, <2>1 DEF RecordEntries, At, UploadLabel
    <2>5. worker'[w].pc \in {"entries", "provisional", "check", "final",
                              "validate", "complete"} /\ Hashing
          => whole[worker[w].job] \/ AllGood(remote')
      BY <1>28, <2>1, <2>4 DEF RecordEntries, AllFit, Fits, At
    <2>6. worker'[w].pc # "idle" => Fits(worker[w])'
      BY <1>0, <2>1, <2>2, <2>3, <2>4, <2>5, UploadFits DEF UploadLabel
    <2> QED BY <1>0, <2>1, <2>6, OthersFit
  <1>29. ASSUME NEW w \in Workers, SendProvisional(w) PROVE AllFit'
    <2>1. Active(w) /\ \A v \in Workers : v # w => worker'[v] = worker[v]
      BY <1>29, <1>w
      DEF SendProvisional, CopyManifest, At, Go, Idle, Active, SetRunning
    <2>2. worker'[w].pc \in {"check", "fail"}
      BY <1>29, <1>w
      DEF SendProvisional, CopyManifest, Go, Idle, IdleWorker, Worker
    <2>3. worker'[w].pc # "idle" => worker'[w].job = worker[w].job
      BY <1>0 DEF WorksOn
    <2>4. /\ job[worker[w].job].kind = "upload"
          /\ job[worker[w].job].status = "running"
      BY <1>29, <1>f, <2>1 DEF SendProvisional, CopyManifest, At, UploadLabel
    <2>5. worker'[w].pc \in {"entries", "provisional", "check", "final",
                              "validate", "complete"} /\ Hashing
          => whole[worker[w].job] \/ AllGood(remote')
      BY <1>29, <2>1, <2>4 DEF SendProvisional, CopyManifest, AllFit, Fits, At
    <2>6. worker'[w].pc # "idle" => Fits(worker[w])'
      BY <1>0, <2>1, <2>2, <2>3, <2>4, <2>5, UploadFits DEF UploadLabel
    <2> QED BY <1>0, <2>1, <2>6, OthersFit
  <1>30. ASSUME NEW w \in Workers, Check(w) PROVE AllFit'
    <2>1. Active(w) /\ \A v \in Workers : v # w => worker'[v] = worker[v]
      BY <1>30, <1>w DEF Check, At, Go, Idle, Active, SetRunning
    <2>2. worker'[w].pc \in {"final", "validate", "fail"}
      <3>1. ASSUME Go(w, "fail")
           PROVE  worker'[w].pc \in {"final", "validate", "fail"}
        BY <3>1, <2>1, <1>w DEF Worker, Go, Idle, IdleWorker
      <3>2. ASSUME worker' = [worker EXCEPT ![w] = [@ EXCEPT
                            !.pc = IF settings.verify = "size_and_manifest"
                                   THEN "final" ELSE "validate",
                            !.level = IF settings.verify = "size_and_manifest"
                                      THEN settings.verify
                                      ELSE worker[w].level]]
           PROVE  worker'[w].pc \in {"final", "validate", "fail"}
        BY <3>2, <2>1, <1>w DEF Worker, Go, Idle, IdleWorker
      <3> QED BY <1>30, <3>1, <3>2 DEF Check
    <2>3. worker'[w].pc # "idle" => worker'[w].job = worker[w].job
      BY <1>0 DEF WorksOn
    <2>4. /\ job[worker[w].job].kind = "upload"
          /\ job[worker[w].job].status = "running"
      BY <1>30, <1>f, <2>1 DEF Check, At, UploadLabel
    <2>5. worker'[w].pc \in {"entries", "provisional", "check", "final",
                              "validate", "complete"} /\ Hashing
          => whole[worker[w].job] \/ AllGood(remote')
      BY <1>30, <2>1, <2>4 DEF Check, AllFit, Fits, At
    <2>6. worker'[w].pc # "idle" => Fits(worker[w])'
      BY <1>0, <2>1, <2>2, <2>3, <2>4, <2>5, UploadFits DEF UploadLabel
    <2> QED BY <1>0, <2>1, <2>6, OthersFit
  <1>31. ASSUME NEW w \in Workers, SendFinal(w) PROVE AllFit'
    <2>1. Active(w) /\ \A v \in Workers : v # w => worker'[v] = worker[v]
      BY <1>31, <1>w
      DEF SendFinal, CopyManifest, At, Go, Idle, Active, SetRunning
    <2>2. worker'[w].pc \in {"validate", "fail"}
      BY <1>31, <1>w DEF SendFinal, CopyManifest, Go, Idle, IdleWorker, Worker
    <2>3. worker'[w].pc # "idle" => worker'[w].job = worker[w].job
      BY <1>0 DEF WorksOn
    <2>4. /\ job[worker[w].job].kind = "upload"
          /\ job[worker[w].job].status = "running"
      BY <1>31, <1>f, <2>1 DEF SendFinal, CopyManifest, At, UploadLabel
    <2>5. worker'[w].pc \in {"entries", "provisional", "check", "final",
                              "validate", "complete"} /\ Hashing
          => whole[worker[w].job] \/ AllGood(remote')
      BY <1>31, <2>1, <2>4 DEF SendFinal, CopyManifest, AllFit, Fits, At
    <2>6. worker'[w].pc # "idle" => Fits(worker[w])'
      BY <1>0, <2>1, <2>2, <2>3, <2>4, <2>5, UploadFits DEF UploadLabel
    <2> QED BY <1>0, <2>1, <2>6, OthersFit
  <1>32. ASSUME NEW w \in Workers, Validate(w) PROVE AllFit'
    <2>1. Active(w) /\ \A v \in Workers : v # w => worker'[v] = worker[v]
      BY <1>32, <1>w DEF Validate, At, Go, Idle, Active, SetRunning
    <2>2. worker'[w].pc \in {"complete", "fail"}
      BY <1>32, <1>w DEF Validate, Go, Idle, IdleWorker, Worker
    <2>3. worker'[w].pc # "idle" => worker'[w].job = worker[w].job
      BY <1>0 DEF WorksOn
    <2>4. /\ job[worker[w].job].kind = "upload"
          /\ job[worker[w].job].status = "running"
      BY <1>32, <1>f, <2>1 DEF Validate, At, UploadLabel
    <2>5. worker'[w].pc \in {"entries", "provisional", "check", "final",
                              "validate", "complete"} /\ Hashing
          => whole[worker[w].job] \/ AllGood(remote')
      BY <1>32, <2>1, <2>4 DEF Validate, AllFit, Fits, At
    <2>6. worker'[w].pc # "idle" => Fits(worker[w])'
      BY <1>0, <2>1, <2>2, <2>3, <2>4, <2>5, UploadFits DEF UploadLabel
    <2> QED BY <1>0, <2>1, <2>6, OthersFit
  <1>33. ASSUME NEW w \in Workers, NEW f \in Files, Send(w, f) PROVE AllFit'
    <2>1. Active(w) /\ \A v \in Workers : v # w => worker'[v] = worker[v]
      BY <1>33, <1>w DEF Send, At, Go, Idle, Active, SetRunning
    <2>2. worker'[w].pc \in {"fail", "send", "sending"}
      <3>1. ASSUME worker' = [worker EXCEPT ![w] = [@ EXCEPT
                            !.pc = "fail", !.token = TRUE]]
           PROVE  worker'[w].pc \in {"fail", "send", "sending"}
        BY <3>1, <2>1, <1>w DEF Worker, Go, Idle, IdleWorker
      <3>2. ASSUME worker' = [worker EXCEPT ![w] = [@ EXCEPT
                            !.todo = worker[w].todo \ {f},
                            !.plan = CopyLater(w, f)]],
                 worker[w].pc = "send"
           PROVE  worker'[w].pc \in {"fail", "send", "sending"}
        BY <3>2, <2>1, <1>w DEF Worker, Go, Idle, IdleWorker
      <3>3. ASSUME worker' = [worker EXCEPT ![w] = [@ EXCEPT
                            !.pc = "sending", !.file = {f}]]
           PROVE  worker'[w].pc \in {"fail", "send", "sending"}
        BY <3>3, <2>1, <1>w DEF Worker, Go, Idle, IdleWorker
      <3> QED BY <1>33, <3>1, <3>2, <3>3 DEF Send, At
    <2>3. worker'[w].pc # "idle" => worker'[w].job = worker[w].job
      BY <1>0 DEF WorksOn
    <2>4. /\ job[worker[w].job].kind = "upload"
          /\ job[worker[w].job].status = "running"
      BY <1>33, <1>f, <2>1 DEF Send, At, UploadLabel
    <2>5. worker'[w].pc \in {"entries", "provisional", "check", "final",
                              "validate", "complete"} /\ Hashing
          => whole[worker[w].job] \/ AllGood(remote')
      BY <2>2
    <2>6. worker'[w].pc # "idle" => Fits(worker[w])'
      BY <1>0, <2>1, <2>2, <2>3, <2>4, <2>5, UploadFits DEF UploadLabel
    <2> QED BY <1>0, <2>1, <2>6, OthersFit
  <1>34. ASSUME NEW w \in Workers, NEW f \in Files, Sent(w, f) PROVE AllFit'
    <2>1. Active(w) /\ \A v \in Workers : v # w => worker'[v] = worker[v]
      BY <1>34, <1>w DEF Sent, At, Go, Idle, Active, SetRunning
    <2>2. worker'[w].pc \in {"fail", "send"}
      BY <1>34, <1>w DEF Sent, Go, Idle, IdleWorker, Worker
    <2>3. worker'[w].pc # "idle" => worker'[w].job = worker[w].job
      BY <1>0 DEF WorksOn
    <2>4. /\ job[worker[w].job].kind = "upload"
          /\ job[worker[w].job].status = "running"
      BY <1>34, <1>f, <2>1 DEF Sent, At, UploadLabel
    <2>5. worker'[w].pc \in {"entries", "provisional", "check", "final",
                              "validate", "complete"} /\ Hashing
          => whole[worker[w].job] \/ AllGood(remote')
      BY <2>2
    <2>6. worker'[w].pc # "idle" => Fits(worker[w])'
      BY <1>0, <2>1, <2>2, <2>3, <2>4, <2>5, UploadFits DEF UploadLabel
    <2> QED BY <1>0, <2>1, <2>6, OthersFit
  <1> QED
    BY <1>1, <1>2, <1>3, <1>4, <1>5, <1>6, <1>7, <1>8, <1>9, <1>10, <1>11,
       <1>12, <1>13, <1>14, <1>15, <1>16, <1>17, <1>18, <1>19, <1>20, <1>21,
       <1>22, <1>23, <1>24, <1>25, <1>26, <1>27, <1>28, <1>29, <1>30, <1>31,
       <1>32, <1>33, <1>34
    DEF Next, Call, Environment, WorkerStep, DownloadStep, UploadStep

LEMMA FitsStep == ASSUME Shapes, Owned, AllFit, Next PROVE AllFit'
  <1>1. ASSUME StartDownload \/ StartUpload PROVE AllFit'
    <2>1. UNCHANGED <<worker, settings>>
      BY <1>1 DEF StartDownload, StartUpload, fixed
    <2> QED BY <1>1, <2>1, StartStep, NoneMoves DEF Next
  <1>2. ASSUME NEW w \in Workers, NEW call \in submitted, Take(w, call)
        PROVE  AllFit'
    <2>1. UNCHANGED <<job, settings>>
      BY <1>2 DEF Take, fixed
    <2>2. worker'[w].pc = "begin"
          /\ \A v \in Workers : v # w => worker'[v] = worker[v]
      BY <1>2, TakeStep
    <2>3. Fits(worker[w])'
      BY <2>2, LabelKinds DEF Fits
    <2>4. RowsStay /\ WatchRemote
      BY <2>1 DEF RowsStay, Next
    <2> QED BY <2>1, <2>2, <2>3, <2>4, OthersFit
  <1>3. CASE /\ ~StartDownload /\ ~StartUpload
             /\ \A w \in Workers, call \in submitted : ~Take(w, call)
    BY <1>3, UsualStep, FitsUsual
  <1> QED BY <1>1, <1>2, <1>3

\* What ends COMPLETED was at the label "complete".
LEMMA CompletesWhole ==
    ASSUME Shapes, Owned, AllFit, Next, NEW j \in Jobs,
           job[j].kind = "upload", Hashing, job[j].status # "completed",
           job'[j].status = "completed"
    PROVE  whole[j]
  <1>0. RowsTyped /\ WorkersTyped
    BY DEF Shapes
  <1>w. \A w \in Workers : Active(w) => worker[w].job \in Jobs
    BY <1>0 DEF WorkersTyped, Active
  <1>1. PICK w \in Workers : Complete(w) /\ worker[w].job = j
    <2>0. ASSUME job' = job PROVE FALSE
      BY <2>0
    <2>p. ASSUME NEW w \in Workers, NEW pid, SetPid(w, pid) PROVE FALSE
      BY <2>p, <1>0 DEF SetPid, RowsTyped, Row
    <2>s. ASSUME NEW kind \in Kind, NEW token \in Content,
                 Submitted(kind, token)
          PROVE  FALSE
      BY <2>s, <1>0 DEF Submitted, RowsTyped, Row, NoRow
    <2>1. StartDownload => FALSE
      BY <2>s, CallsTyped
    <2>2. StartUpload => FALSE
      BY <2>s, CallsTyped
    <2>3. ASSUME NEW k \in Jobs, Cancel(k) PROVE FALSE
      BY <2>3, <1>0 DEF Cancel, RowsTyped, Row
    <2>4. Restart => FALSE
      BY <1>0 DEF Restart, RowsTyped, Row
    <2>5. ASSUME NEW w \in Workers, Fail(w) PROVE FALSE
      BY <2>5, <1>0 DEF Fail, Finish, EndStatus, RowsTyped, Row
    <2>6. ASSUME NEW w \in Workers, Complete(w) PROVE worker[w].job = j
      BY <2>6, <1>0 DEF Complete, Finish, RowsTyped, Row
    <2>7. ASSUME NEW w \in Workers, NEW label, SetRunning(w, label) PROVE FALSE
      BY <2>7, <1>0 DEF SetRunning, RowsTyped, Row
    <2>8. ASSUME NEW w \in Workers, DownloadStep(w) PROVE FALSE
      BY <2>8, <2>0, <2>p, <2>7
      DEF DownloadStep, BeginDownload, RunDownload, Fetch, Fetched, Compare,
          KeepBackup, Replace, CommitModel, Undo, Restore, DropBackup,
          LoseModel
    <2>9. ASSUME NEW w \in Workers, UploadStep(w) PROVE FALSE
      BY <2>9, <2>0, <2>p, <2>7
      DEF UploadStep, BeginUpload, AllSent, Verify, RecordEntries,
          SendProvisional, CopyManifest, Check, SendFinal, Validate, Send, Sent
    <2>10. ASSUME NEW w \in Workers, NEW call \in submitted, Take(w, call)
           PROVE FALSE
      BY <2>10, <2>0 DEF Take
    <2>11. ListModels \/ VerifyRead \/ VerifyWrite => FALSE
      BY <2>0 DEF ListModels, VerifyRead, VerifyWrite
    <2>12. ModelChanges \/ Crash => FALSE
      BY <2>0 DEF ModelChanges, Crash
    <2>13. ASSUME NEW f \in Files, SnapshotChanges(f) PROVE FALSE
      BY <2>13, <2>0 DEF SnapshotChanges
    <2>14. ASSUME NEW k \in Jobs, NEW f \in Files, OrphanEnds(k, f) PROVE FALSE
      BY <2>14, <2>0 DEF OrphanEnds
    <2>15. ASSUME NEW w \in Workers, Raise(w) PROVE FALSE
      BY <2>15, <2>0, <2>p DEF Raise
    <2> QED
      BY <2>1, <2>2, <2>3, <2>4, <2>5, <2>6, <2>8, <2>9, <2>10, <2>11, <2>12,
         <2>13, <2>14, <2>15 DEF Next, Call, Environment, WorkerStep
  <1>2. Active(w) /\ Fits(worker[w]) /\ worker[w].pc = "complete"
    BY <1>1 DEF Complete, At, Active, AllFit
  <1> QED BY <1>1, <1>2 DEF Fits

-----------------------------------------------------------------------------
(* what a download knows *)

\* The content that the row names is at the path or in a backup.
Kept == dest = model.sha \/ \E j \in Jobs : backup[j] = model.sha

\* A download whose record is r, with nobody else at the model: until the file
\* is moved away the row that is to be preserved names it, then the backup of
\* the job has it; any other row is not AVAILABLE until the commit.
Aware(r) ==
    /\ r.pc \in {"get", "fetch", "fetching", "compare", "keep"} =>
           IF r.preserve THEN model.sha = dest /\ dest # NoFile
           ELSE model.status # "available"
    /\ r.pc \in {"replace", "commit", "undo", "restore"} =>
           IF r.preserve
           THEN model.sha = backup[r.job] /\ backup[r.job] # NoFile
           ELSE model.status # "available"
    /\ r.pc = "commit" => dest = r.part
    /\ r.pc \in {"drop", "complete"} => dest = model.sha
    /\ r.pc = "loseModel" /\ r.preserve => Kept

\* Without an overlap one call at most is at the model.
Alone ==
    ~overlapped =>
        /\ model.status = "available" => Kept
        /\ \A v, w \in Workers : UsesModel(v) /\ UsesModel(w) => v = w
        /\ \A w \in Workers :
               UsesModel(w) => ~verifier.on /\ Aware(worker[w])
        /\ verifier.on => dest = verifier.sha

\* Who is at the model after a step was there before.
LEMMA UsesStay ==
    ASSUME Shapes, Owned, RowsStay, NEW v \in Workers, WorksOn(v),
           UsesModel(v)'
    PROVE  UsesModel(v) /\ worker'[v].job = worker[v].job
  <1>1. Active(v) /\ worker'[v].job = worker[v].job
    BY DEF WorksOn, UsesModel
  <1>2. worker[v].job \in Jobs
    BY <1>1 DEF Shapes, WorkersTyped, Active
  <1>3. job'[worker[v].job].kind = job[worker[v].job].kind
    BY <1>1, <1>2 DEF Owned, RowsStay
  <1> QED BY <1>1, <1>3 DEF UsesModel, Active

\* A step that leaves the model and its files alone, and the threads at it
LEMMA Quiet ==
    ASSUME Shapes, Owned, Alone, RowsStay, \A v \in Workers : WorksOn(v),
           UNCHANGED <<model, dest, backup, overlapped>>,
           verifier' = verifier \/ ~verifier'.on,
           \A v \in Workers : UsesModel(v) /\ UsesModel(v)' =>
               /\ worker'[v].pc = worker[v].pc
               /\ worker'[v].preserve = worker[v].preserve
               /\ worker'[v].part = worker[v].part
    PROVE  Alone'
  <1> SUFFICES ASSUME ~overlapped'
               PROVE  /\ model'.status = "available" => Kept'
                      /\ \A v, w \in Workers :
                             UsesModel(v)' /\ UsesModel(w)' => v = w
                      /\ \A w \in Workers : UsesModel(w)' =>
                             ~verifier'.on /\ Aware(worker[w])'
                      /\ verifier'.on => dest' = verifier'.sha
    BY DEF Alone
  <1>1. Kept' = Kept
    BY DEF Kept
  <1>2. \A v \in Workers : UsesModel(v)' =>
            UsesModel(v) /\ worker'[v].job = worker[v].job
    BY UsesStay
  <1>3. ASSUME NEW v \in Workers, UsesModel(v)' PROVE Aware(worker[v])'
    <2>1. Aware(worker[v]) /\ UsesModel(v) /\ worker'[v].job = worker[v].job
      BY <1>2, <1>3 DEF Alone
    <2> QED BY <1>1, <1>3, <2>1 DEF Aware
  <1>4. verifier'.on => verifier' = verifier
    OBVIOUS
  <1> QED BY <1>1, <1>2, <1>3, <1>4 DEF Alone

\* A step of w, which is at the model
LEMMA AtModel ==
    ASSUME Shapes, Owned, Alone, RowsStay, \A v \in Workers : WorksOn(v),
           NEW w \in Workers, UsesModel(w),
           UNCHANGED <<verifier, overlapped>>,
           \A v \in Workers : v # w => worker'[v] = worker[v],
           ~overlapped /\ Aware(worker[w])
                       /\ (model.status = "available" => Kept) =>
               /\ model'.status = "available" => Kept'
               /\ worker'[w].pc # "idle" => Aware(worker[w])'
    PROVE  Alone'
  <1> SUFFICES ASSUME ~overlapped'
               PROVE  /\ model'.status = "available" => Kept'
                      /\ \A v, u \in Workers :
                             UsesModel(v)' /\ UsesModel(u)' => v = u
                      /\ \A v \in Workers : UsesModel(v)' =>
                             ~verifier'.on /\ Aware(worker[v])'
                      /\ verifier'.on => dest' = verifier'.sha
    BY DEF Alone
  <1>1. \A v \in Workers : UsesModel(v)' => UsesModel(v)
    BY UsesStay
  <1>2. ~overlapped
    OBVIOUS
  <1>3. /\ Aware(worker[w]) /\ ~verifier.on
        /\ model.status = "available" => Kept
        /\ \A v \in Workers : UsesModel(v) => v = w
    BY <1>2 DEF Alone
  <1>4. ~verifier'.on
    BY <1>3
  <1>5. UsesModel(w)' => worker'[w].pc # "idle"
    BY DEF UsesModel
  <1> QED BY <1>1, <1>2, <1>3, <1>4, <1>5

\* What w keeps when it goes to another label
LEMMA GoKeeps ==
    ASSUME WorkersTyped, NEW w \in Workers, NEW label, Go(w, label)
    PROVE  /\ \A v \in Workers : v # w => worker'[v] = worker[v]
           /\ worker'[w].pc = label /\ worker'[w].job = worker[w].job
           /\ worker'[w].preserve = worker[w].preserve
           /\ worker'[w].part = worker[w].part
  BY DEF WorkersTyped, Worker, Go

LEMMA AloneUsual ==
    ASSUME Shapes, Owned, AllFit, Alone, Usual, Next,
           ~StartDownload, ~StartUpload,
           \A w \in Workers, call \in submitted : ~Take(w, call)
    PROVE  Alone'
  <1>0. /\ RowsStay /\ WorkersTyped /\ ModelTyped
        /\ \A v \in Workers : WorksOn(v)
    BY DEF Usual, Shapes
  <1>w. worker \in [Workers -> Worker]
    BY <1>0 DEF WorkersTyped
  <1>d. \A w \in Workers : worker[w].pc \in DownloadLabel => UsesModel(w)
    BY LabelKinds DEF AllFit, Fits, Active, UsesModel
  <1>u. \A w \in Workers : worker[w].pc \in UploadLabel => ~UsesModel(w)
    BY LabelKinds DEF AllFit, Fits, Active, UsesModel
  <1>m. /\ model \in Model
        /\ \A status : [model EXCEPT !.status = status].sha = model.sha
        /\ \A status : [model EXCEPT !.status = status].status = status
    BY <1>0 DEF ModelTyped, Model
  <1>j. \A w \in Workers : UsesModel(w) => worker[w].job \in Jobs
    BY <1>0 DEF WorkersTyped, UsesModel
  <1>b. backup \in [Jobs -> Content]
    BY <1>0 DEF ModelTyped

  <1>1. ASSUME ListModels PROVE Alone'
    <2>1. /\ model'.sha = model.sha
          /\ model'.status \in {model.status, "missing_local"}
          /\ UNCHANGED <<dest, backup, verifier, overlapped, worker>>
      BY <1>1, <1>0 DEF ListModels, ModelTyped, Model
    <2>2. Kept' = Kept
      BY <2>1 DEF Kept
    <2>3. \A v \in Workers : UsesModel(v)' => UsesModel(v)
      BY <1>0, UsesStay
    <2>4. \A v \in Workers : Aware(worker[v]) => Aware(worker[v])'
      BY <2>1, <2>2 DEF Aware
    <2> QED BY <2>1, <2>2, <2>3, <2>4 DEF Alone
  <1>2. ASSUME VerifyRead PROVE Alone'
    <2>1. UNCHANGED <<dest, backup, worker>> /\ model'.sha = model.sha
      BY <1>2, <1>m DEF VerifyRead
    <2>2. \A v \in Workers : UsesModel(v)' => UsesModel(v)
      BY <1>0, UsesStay
    <2>3. CASE model.sha = NoFile \/ dest = NoFile
      <3>1. /\ model'.status # "available"
            /\ UNCHANGED <<verifier, overlapped>>
        BY <1>2, <1>m, <2>3 DEF VerifyRead
      <3>2. Kept' = Kept
        BY <2>1 DEF Kept
      <3>3. \A v \in Workers : Aware(worker[v]) => Aware(worker[v])'
        BY <2>1, <3>1, <3>2 DEF Aware
      <3> QED BY <2>1, <2>2, <3>1, <3>2, <3>3 DEF Alone
    <2>4. CASE ~(model.sha = NoFile \/ dest = NoFile)
      <3>1. /\ model'.status \in {model.status, "missing_remote"}
            /\ overlapped' = (overlapped \/ ModelInUse)
        BY <1>2, <1>m, <2>4 DEF VerifyRead
      <3>4. verifier'.sha = dest
        <4>1. PICK sameSize \in BOOLEAN :
                  verifier' = [on |-> TRUE, sha |-> dest,
                               ok |-> /\ drive # NoFile
                                      /\ LooksLike(dest, drive, sameSize)]
          BY <1>2, <2>4 DEF VerifyRead
        <4> QED BY <4>1
      <3>2. Kept' = Kept
        BY <2>1, <3>1 DEF Kept
      <3>3. ~overlapped' => ~overlapped /\ \A v \in Workers : ~UsesModel(v)
        BY <3>1 DEF ModelInUse
      <3> QED BY <2>1, <2>2, <3>1, <3>2, <3>3, <3>4 DEF Alone
    <2> QED BY <2>3, <2>4
  <1>3. ASSUME VerifyWrite PROVE Alone'
    <2>1. /\ UNCHANGED <<dest, backup, worker, overlapped>>
          /\ model'.sha = verifier.sha /\ verifier.on /\ ~verifier'.on
      BY <1>3, <1>m DEF VerifyWrite, Model, NoVerifier
    <2>2. ~overlapped =>
              dest = verifier.sha /\ \A v \in Workers : ~UsesModel(v)
      BY <2>1 DEF Alone
    <2>3. \A v \in Workers : UsesModel(v)' => UsesModel(v)
      BY <1>0, UsesStay
    <2>4. ~overlapped => Kept'
      BY <2>1, <2>2 DEF Kept
    <2> QED BY <2>1, <2>2, <2>3, <2>4 DEF Alone
  <1>4. ASSUME NEW j \in Jobs, Cancel(j) PROVE Alone'
    <2>1. \A v \in Workers : /\ worker'[v].pc = worker[v].pc
                             /\ worker'[v].preserve = worker[v].preserve
                             /\ worker'[v].part = worker[v].part
      BY <1>4, <1>w DEF Cancel, Worker
    <2> QED BY <1>4, <1>0, <2>1, Quiet DEF Cancel, modelVars
  <1>5. ASSUME ModelChanges PROVE Alone'
    BY <1>5, <1>0, Quiet DEF ModelChanges, modelVars
  <1>6. ASSUME Crash PROVE Alone'
    <2>1. \A v \in Workers : ~UsesModel(v)'
      BY <1>6 DEF Crash, IdleWorker, UsesModel
    <2> QED BY <1>6, <1>0, <2>1, Quiet DEF Crash, NoVerifier
  <1>7. ASSUME Restart PROVE Alone'
    BY <1>7, <1>0, Quiet DEF Restart, modelVars
  <1>8. ASSUME NEW f \in Files, SnapshotChanges(f) PROVE Alone'
    BY <1>8, <1>0, Quiet DEF SnapshotChanges, modelVars
  <1>9. ASSUME NEW j \in Jobs, NEW f \in Files, OrphanEnds(j, f) PROVE Alone'
    BY <1>9, <1>0, Quiet DEF OrphanEnds, modelVars
  <1>10. ASSUME NEW w \in Workers, Raise(w) PROVE Alone'
    <2>0. /\ UNCHANGED <<model, dest, backup, verifier, overlapped>>
          /\ Active(w)
      BY <1>10 DEF Raise, modelVars, Active
    <2>1. \A v \in Workers : v # w => worker'[v] = worker[v]
      BY <1>10, <1>w DEF Raise, Go, Idle
    <2>2. Kept' = Kept
      BY <2>0 DEF Kept
    <2>3. CASE Handler(w) = "idle" \/ ~UsesModel(w)
      <3>1. Handler(w) = "idle" => ~UsesModel(w)'
        BY <1>10, <1>w DEF Raise, Idle, IdleWorker, UsesModel
      <3> QED BY <1>0, <2>0, <2>1, <2>3, <3>1, Quiet
    <2>4. CASE Handler(w) # "idle" /\ UsesModel(w)
      <3>1. Go(w, Handler(w)) /\ job[worker[w].job].kind = "download"
        BY <1>10, <2>4 DEF Raise, UsesModel
      <3>2. /\ worker'[w].pc = Handler(w) /\ worker'[w].job = worker[w].job
            /\ worker'[w].preserve = worker[w].preserve
            /\ worker'[w].part = worker[w].part
        BY <1>0, <3>1, GoKeeps
      <3>3. CASE worker[w].pc \in {"replace", "commit"}
        <4>1. Handler(w) = "undo"
          BY <3>1, <3>3 DEF Handler
        <4>2. Aware(worker[w]) => Aware(worker[w])'
          BY <2>0, <3>2, <3>3, <4>1 DEF Aware
        <4> QED BY <1>0, <2>0, <2>1, <2>2, <2>4, <4>2, AtModel
      <3>4. CASE worker[w].pc \notin {"replace", "commit"}
        <4>1. Handler(w) = "loseModel"
          BY <2>4, <3>1, <3>4 DEF Handler
        <4>2. worker[w].pc \notin {"begin", "loseModel", "fail", "idle"}
          BY <2>4 DEF Handler, UsesModel
        <4>3. worker[w].pc \in Label
          BY <1>w, <4>2 DEF Worker
        <4>4. worker[w].pc \notin UploadLabel
          BY <1>u, <2>4
        <4>5. worker[w].pc \in {"get", "fetch", "fetching", "compare", "keep",
                               "undo", "restore", "drop", "complete"}
          BY <3>4, <4>2, <4>3, <4>4 DEF Label, DownloadLabel
        <4>6. Aware(worker[w]) => (worker[w].preserve => Kept)
          BY <1>j, <2>4, <4>5 DEF Aware, Kept
        <4>7. Aware(worker[w]) => Aware(worker[w])'
          BY <2>2, <3>2, <4>1, <4>6 DEF Aware
        <4> QED BY <1>0, <2>0, <2>1, <2>2, <2>4, <4>7, AtModel
      <3> QED BY <3>3, <3>4
    <2> QED BY <2>3, <2>4
  <1>11. ASSUME NEW w \in Workers, Complete(w) PROVE Alone'
    <2>1. ~UsesModel(w)' /\ \A v \in Workers : v # w => worker'[v] = worker[v]
      BY <1>11, <1>w DEF Complete, Idle, IdleWorker, UsesModel
    <2> QED BY <1>11, <1>0, <2>1, Quiet DEF Complete, modelVars
  <1>12. ASSUME NEW w \in Workers, Fail(w) PROVE Alone'
    <2>1. ~UsesModel(w)' /\ \A v \in Workers : v # w => worker'[v] = worker[v]
      BY <1>12, <1>w DEF Fail, Idle, IdleWorker, UsesModel
    <2> QED BY <1>12, <1>0, <2>1, Quiet DEF Fail, modelVars
  <1>13. ASSUME NEW w \in Workers, BeginDownload(w) PROVE Alone'
    <2>1. /\ UsesModel(w) /\ UNCHANGED <<dest, backup, verifier, overlapped>>
          /\ worker[w] \in Worker
      BY <1>13, <1>w DEF BeginDownload, At, UsesModel
    <2>2. \A v \in Workers : v # w => worker'[v] = worker[v]
      BY <1>13, <1>w DEF BeginDownload, Go, Idle
    <2>3. Idle(w) => worker'[w].pc = "idle"
      BY <1>w DEF Idle, IdleWorker
    <2>4. ASSUME worker' = [worker EXCEPT ![w] = [@ EXCEPT
                            !.pc = "complete", !.entry = NoFile]]
          PROVE  worker'[w].pc = "complete"
      BY <2>1, <2>4, <1>w DEF Worker
    <2>5. ASSUME worker' = [worker EXCEPT ![w] = [@ EXCEPT
                            !.pc = "get", !.entry = drive,
                            !.preserve = SavedLocalMatches]]
          PROVE  /\ worker'[w].pc = "get"
                 /\ worker'[w].preserve = SavedLocalMatches
      BY <2>1, <2>5, <1>w DEF Worker, SavedLocalMatches
    <2>6. ASSUME Idle(w),
                 model' = model
                 \/ model' = [model EXCEPT !.status = "missing_remote"]
          PROVE  Alone'
      <3>1. /\ model'.sha = model.sha
            /\ model'.status = "available" => model.status = "available"
        BY <1>m, <2>6
      <3>2. Kept' = Kept
        BY <2>1, <3>1 DEF Kept
      <3> QED BY <1>0, <2>1, <2>2, <2>3, <2>6, <3>1, <3>2, AtModel
    <2>7. ASSUME worker' = [worker EXCEPT ![w] = [@ EXCEPT
                            !.pc = "complete", !.entry = NoFile]],
                 model' = [model EXCEPT !.status = "available", !.sha = dest]
          PROVE  Alone'
      <3>1. model'.sha = dest'
        BY <1>m, <2>1, <2>7 DEF Model
      <3>2. Kept' /\ Aware(worker[w])'
        BY <2>4, <2>7, <3>1 DEF Kept, Aware
      <3> QED BY <1>0, <2>1, <2>2, <3>2, AtModel
    <2>8. ASSUME worker' = [worker EXCEPT ![w] = [@ EXCEPT
                            !.pc = "get", !.entry = drive,
                            !.preserve = SavedLocalMatches]],
                 model' = IF SavedLocalMatches THEN model
                          ELSE [model EXCEPT !.status = "downloading"]
          PROVE  Alone'
      <3>1. /\ model'.sha = model.sha
            /\ SavedLocalMatches => model' = model
            /\ ~SavedLocalMatches => model'.status # "available"
        BY <1>m, <2>8
      <3>2. Kept' = Kept
        BY <2>1, <3>1 DEF Kept
      <3>3. worker'[w].pc = "get" /\ worker'[w].preserve = SavedLocalMatches
        BY <2>5, <2>8
      <3>4. Aware(worker[w])'
        BY <2>1, <3>1, <3>3 DEF Aware, SavedLocalMatches
      <3>5. model'.status = "available" => model.status = "available"
        BY <3>1
      <3> QED BY <1>0, <2>1, <2>2, <3>2, <3>4, <3>5, AtModel
    <2> QED BY <1>13, <2>6, <2>7, <2>8 DEF BeginDownload
  <1>14. ASSUME NEW w \in Workers, RunDownload(w) PROVE Alone'
    <2>1. UsesModel(w)
      BY <1>14, <1>d DEF RunDownload, At, SetRunning, DownloadLabel
    <2>2. \A v \in Workers : v # w => worker'[v] = worker[v]
      BY <1>14, <1>w DEF RunDownload, Go, Idle
    <2>3. UNCHANGED <<model, dest, backup, verifier, overlapped>>
      BY <1>14 DEF RunDownload, modelVars
    <2>4. Kept' = Kept
      BY <2>3 DEF Kept
    <2>5. worker[w] \in Worker
      BY <1>w
    <2>6. ASSUME NEW label \in {"fetch"}, Go(w, label)
          PROVE  worker'[w].pc = label
                 /\ worker'[w].preserve = worker[w].preserve
      BY <1>0, <2>6, GoKeeps
    <2>7. /\ worker[w].pc = "get" /\ worker'[w].pc \in {"fetch"}
          /\ worker'[w].preserve = worker[w].preserve
      BY <1>14, <2>6 DEF RunDownload, At, SetRunning
    <2>8. Aware(worker[w]) => Aware(worker[w])'
      BY <2>3, <2>4, <2>7 DEF Aware, Kept
    <2> QED BY <1>0, <2>1, <2>2, <2>3, <2>4, <2>8, AtModel
  <1>15. ASSUME NEW w \in Workers, Fetch(w) PROVE Alone'
    <2>1. UsesModel(w)
      BY <1>15, <1>d DEF Fetch, At, SetRunning, DownloadLabel
    <2>2. \A v \in Workers : v # w => worker'[v] = worker[v]
      BY <1>15, <1>w DEF Fetch, Go, Idle
    <2>3. UNCHANGED <<model, dest, backup, verifier, overlapped>>
      BY <1>15 DEF Fetch, modelVars
    <2>4. Kept' = Kept
      BY <2>3 DEF Kept
    <2>5. worker[w] \in Worker
      BY <1>w
    <2>6. ASSUME NEW label \in {"loseModel"}, Go(w, label)
          PROVE  worker'[w].pc = label
                 /\ worker'[w].preserve = worker[w].preserve
      BY <1>0, <2>6, GoKeeps
    <2>7. ASSUME worker' = [worker EXCEPT ![w] = [@ EXCEPT
                            !.pc = "fetching", !.source = drive,
                            !.part = NoFile,
                            !.attempt = worker[w].attempt + 1]]
          PROVE  worker'[w].pc = "fetching"
                 /\ worker'[w].preserve = worker[w].preserve
      BY <1>w, <2>5, <2>7 DEF Worker
    <2>8. /\ worker[w].pc = "fetch"
          /\ worker'[w].pc \in {"fetching", "loseModel"}
          /\ worker'[w].preserve = worker[w].preserve
      BY <1>15, <2>6, <2>7 DEF Fetch, At, SetRunning
    <2>9. Aware(worker[w]) => Aware(worker[w])'
      BY <2>3, <2>4, <2>8 DEF Aware, Kept
    <2> QED BY <1>0, <2>1, <2>2, <2>3, <2>4, <2>9, AtModel
  <1>16. ASSUME NEW w \in Workers, Fetched(w) PROVE Alone'
    <2>1. UsesModel(w)
      BY <1>16, <1>d DEF Fetched, At, SetRunning, DownloadLabel
    <2>2. \A v \in Workers : v # w => worker'[v] = worker[v]
      BY <1>16, <1>w DEF Fetched, Go, Idle
    <2>3. UNCHANGED <<model, dest, backup, verifier, overlapped>>
      BY <1>16 DEF Fetched, modelVars
    <2>4. Kept' = Kept
      BY <2>3 DEF Kept
    <2>5. worker[w] \in Worker
      BY <1>w
    <2>6. ASSUME NEW label \in {"fetch", "loseModel"}, Go(w, label)
          PROVE  worker'[w].pc = label
                 /\ worker'[w].preserve = worker[w].preserve
      BY <1>0, <2>6, GoKeeps
    <2>7. ASSUME worker' = [worker EXCEPT ![w] = [@ EXCEPT
                            !.pc = "compare", 
                            !.part = IF drive = worker[w].source THEN drive
                                     ELSE Torn,
                            !.source = NoFile, !.attempt = 0]]
          PROVE  worker'[w].pc = "compare"
                 /\ worker'[w].preserve = worker[w].preserve
      BY <1>w, <2>5, <2>7 DEF Worker
    <2>8. /\ worker[w].pc = "fetching"
          /\ worker'[w].pc \in {"fetch", "compare", "loseModel"}
          /\ worker'[w].preserve = worker[w].preserve
      BY <1>16, <2>6, <2>7 DEF Fetched, At, SetRunning
    <2>9. Aware(worker[w]) => Aware(worker[w])'
      BY <2>3, <2>4, <2>8 DEF Aware, Kept
    <2> QED BY <1>0, <2>1, <2>2, <2>3, <2>4, <2>9, AtModel
  <1>17. ASSUME NEW w \in Workers, Compare(w) PROVE Alone'
    <2>1. UsesModel(w)
      BY <1>17, <1>d DEF Compare, At, SetRunning, DownloadLabel
    <2>2. \A v \in Workers : v # w => worker'[v] = worker[v]
      BY <1>17, <1>w DEF Compare, Go, Idle
    <2>3. UNCHANGED <<model, dest, backup, verifier, overlapped>>
      BY <1>17 DEF Compare, modelVars
    <2>4. Kept' = Kept
      BY <2>3 DEF Kept
    <2>5. worker[w] \in Worker
      BY <1>w
    <2>6. ASSUME NEW label \in {"keep", "replace"}, Go(w, label)
          PROVE  worker'[w].pc = label
                 /\ worker'[w].preserve = worker[w].preserve
      BY <1>0, <2>6, GoKeeps
    <2>7. ASSUME worker' = [worker EXCEPT ![w] = [@ EXCEPT
                            !.pc = "loseModel", !.changed = TRUE]]
          PROVE  worker'[w].pc = "loseModel"
                 /\ worker'[w].preserve = worker[w].preserve
      BY <1>w, <2>5, <2>7 DEF Worker
    <2>8. /\ worker[w].pc = "compare"
          /\ worker'[w].pc \in {"keep", "replace", "loseModel"}
          /\ worker'[w].pc = "replace" => dest = NoFile
          /\ worker'[w].preserve = worker[w].preserve
      BY <1>17, <2>6, <2>7 DEF Compare, At
    <2>9. Aware(worker[w]) => Aware(worker[w])'
      BY <2>3, <2>4, <2>8 DEF Aware, Kept
    <2> QED BY <1>0, <2>1, <2>2, <2>3, <2>4, <2>9, AtModel
  <1>18. ASSUME NEW w \in Workers, KeepBackup(w) PROVE Alone'
    <2>1. UsesModel(w)
      BY <1>18, <1>d DEF KeepBackup, At, SetRunning, DownloadLabel
    <2>a. /\ dest = NoFile => Go(w, "loseModel")
          /\ dest # NoFile => Go(w, "replace")
      BY <1>18 DEF KeepBackup
    <2>2. /\ \A v \in Workers : v # w => worker'[v] = worker[v]
          /\ dest = NoFile => worker'[w].pc = "loseModel"
          /\ dest # NoFile => worker'[w].pc = "replace"
          /\ worker'[w].job = worker[w].job
          /\ worker'[w].preserve = worker[w].preserve
          /\ worker'[w].part = worker[w].part
      <3>1. ASSUME dest = NoFile, Go(w, "loseModel")
            PROVE  worker'[w].pc = "loseModel"
        BY <1>0, <3>1, GoKeeps
      <3>2. ASSUME dest # NoFile, Go(w, "replace")
            PROVE  worker'[w].pc = "replace"
        BY <1>0, <3>2, GoKeeps
      <3>3. Go(w, "loseModel") \/ Go(w, "replace")
        BY <2>a
      <3> QED BY <1>0, <2>a, <3>1, <3>2, <3>3, GoKeeps
    <2>3. UNCHANGED <<verifier, overlapped>>
      BY <1>18 DEF KeepBackup
    <2>4. worker[w].job \in Jobs
      BY <1>j, <2>1
    <2>5. model' = model /\ worker[w].pc = "keep"
      BY <1>18 DEF KeepBackup, At
    <2>6. dest = NoFile => UNCHANGED <<dest, backup>>
      BY <1>18 DEF KeepBackup
    <2>7. dest # NoFile => backup'[worker[w].job] = dest
      BY <1>18, <1>b, <2>4 DEF KeepBackup
    <2>8. dest # NoFile /\ Aware(worker[w])
          => /\ Aware(worker[w])'
             /\ model'.status = "available" => Kept'
      <3>1. ASSUME dest # NoFile, Aware(worker[w]), worker[w].preserve
            PROVE  Kept' /\ Aware(worker[w])'
        BY <2>2, <2>4, <2>5, <2>7, <3>1 DEF Aware, Kept
      <3>2. ASSUME dest # NoFile, Aware(worker[w]), ~worker[w].preserve
            PROVE  model'.status # "available" /\ Aware(worker[w])'
        BY <2>2, <2>5, <3>2 DEF Aware
      <3> QED BY <3>1, <3>2
    <2>9. ~overlapped /\ Aware(worker[w])
                      /\ (model.status = "available" => Kept) =>
              /\ model'.status = "available" => Kept'
              /\ worker'[w].pc # "idle" => Aware(worker[w])'
      <3>1. CASE dest = NoFile
        <4>1. Kept' = Kept
          BY <2>5, <2>6, <3>1 DEF Kept
        <4>2. Aware(worker[w]) => Aware(worker[w])'
          BY <2>2, <2>5, <3>1 DEF Aware
        <4> QED BY <2>5, <4>1, <4>2
      <3>2. CASE dest # NoFile
        BY <2>8, <3>2
      <3> QED BY <3>1, <3>2
    <2> QED BY <1>0, <2>1, <2>2, <2>3, <2>9, AtModel
  <1>19. ASSUME NEW w \in Workers, Replace(w) PROVE Alone'
    <2>1. UsesModel(w)
      BY <1>19, <1>d DEF Replace, At, SetRunning, DownloadLabel
    <2>2. /\ \A v \in Workers : v # w => worker'[v] = worker[v]
          /\ worker'[w].pc = "commit" /\ worker'[w].job = worker[w].job
          /\ worker'[w].preserve = worker[w].preserve
          /\ worker'[w].part = worker[w].part
      BY <1>19, <1>0, GoKeeps DEF Replace
    <2>3. UNCHANGED <<verifier, overlapped>>
      BY <1>19 DEF Replace
    <2>4. worker[w].job \in Jobs
      BY <1>j, <2>1
    <2>5. /\ UNCHANGED <<model, backup>> /\ worker[w].pc = "replace"
          /\ dest' = worker[w].part
      BY <1>19 DEF Replace, At
    <2>6. Aware(worker[w]) =>
              /\ Aware(worker[w])'
              /\ model'.status = "available" => Kept'
      BY <2>2, <2>4, <2>5 DEF Aware, Kept
    <2>9. ~overlapped /\ Aware(worker[w])
                      /\ (model.status = "available" => Kept) =>
              /\ model'.status = "available" => Kept'
              /\ worker'[w].pc # "idle" => Aware(worker[w])'
      BY <2>6
    <2> QED BY <1>0, <2>1, <2>2, <2>3, <2>9, AtModel
  <1>20. ASSUME NEW w \in Workers, CommitModel(w) PROVE Alone'
    <2>1. UsesModel(w)
      BY <1>20, <1>d DEF CommitModel, At, SetRunning, DownloadLabel
    <2>a. /\ dest = NoFile => Go(w, "undo")
          /\ dest # NoFile => Go(w, "drop")
      BY <1>20 DEF CommitModel
    <2>2. /\ \A v \in Workers : v # w => worker'[v] = worker[v]
          /\ dest = NoFile => worker'[w].pc = "undo"
          /\ dest # NoFile => worker'[w].pc = "drop"
          /\ worker'[w].job = worker[w].job
          /\ worker'[w].preserve = worker[w].preserve
          /\ worker'[w].part = worker[w].part
      <3>1. ASSUME dest = NoFile, Go(w, "undo")
            PROVE  worker'[w].pc = "undo"
        BY <1>0, <3>1, GoKeeps
      <3>2. ASSUME dest # NoFile, Go(w, "drop")
            PROVE  worker'[w].pc = "drop"
        BY <1>0, <3>2, GoKeeps
      <3>3. Go(w, "undo") \/ Go(w, "drop")
        BY <2>a
      <3> QED BY <1>0, <2>a, <3>1, <3>2, <3>3, GoKeeps
    <2>3. UNCHANGED <<verifier, overlapped>>
      BY <1>20 DEF CommitModel
    <2>4. worker[w].job \in Jobs
      BY <1>j, <2>1
    <2>5. UNCHANGED <<dest, backup>> /\ worker[w].pc = "commit"
      BY <1>20 DEF CommitModel, At
    <2>6. dest = NoFile => model' = model
      BY <1>20 DEF CommitModel
    <2>7. dest # NoFile => model'.sha = worker[w].part
      BY <1>20, <1>m DEF CommitModel, Model
    <2>8. dest = NoFile =>
              Kept' = Kept /\ (Aware(worker[w]) => Aware(worker[w])')
      BY <2>2, <2>5, <2>6 DEF Aware, Kept
    <2>9. ~overlapped /\ Aware(worker[w])
                      /\ (model.status = "available" => Kept) =>
              /\ model'.status = "available" => Kept'
              /\ worker'[w].pc # "idle" => Aware(worker[w])'
      <3>1. CASE dest = NoFile
        BY <2>6, <2>8, <3>1
      <3>2. CASE dest # NoFile
        BY <2>2, <2>5, <2>7, <3>2 DEF Aware, Kept
      <3> QED BY <3>1, <3>2
    <2> QED BY <1>0, <2>1, <2>2, <2>3, <2>9, AtModel
  <1>21. ASSUME NEW w \in Workers, Undo(w) PROVE Alone'
    <2>1. UsesModel(w)
      BY <1>21, <1>d DEF Undo, At, SetRunning, DownloadLabel
    <2>2. /\ \A v \in Workers : v # w => worker'[v] = worker[v]
          /\ worker'[w].pc = "restore" /\ worker'[w].job = worker[w].job
          /\ worker'[w].preserve = worker[w].preserve
          /\ worker'[w].part = worker[w].part
      BY <1>21, <1>0, GoKeeps DEF Undo
    <2>3. UNCHANGED <<verifier, overlapped>>
      BY <1>21 DEF Undo
    <2>4. worker[w].job \in Jobs
      BY <1>j, <2>1
    <2>5. UNCHANGED <<model, backup>> /\ worker[w].pc = "undo"
      BY <1>21 DEF Undo, At
    <2>9. ~overlapped /\ Aware(worker[w])
                      /\ (model.status = "available" => Kept) =>
              /\ model'.status = "available" => Kept'
              /\ worker'[w].pc # "idle" => Aware(worker[w])'
      BY <2>2, <2>4, <2>5 DEF Aware, Kept
    <2> QED BY <1>0, <2>1, <2>2, <2>3, <2>9, AtModel
  <1>22. ASSUME NEW w \in Workers, Restore(w) PROVE Alone'
    <2>1. UsesModel(w)
      BY <1>22, <1>d DEF Restore, At, SetRunning, DownloadLabel
    <2>2. /\ \A v \in Workers : v # w => worker'[v] = worker[v]
          /\ worker'[w].pc = "loseModel" /\ worker'[w].job = worker[w].job
          /\ worker'[w].preserve = worker[w].preserve
          /\ worker'[w].part = worker[w].part
      BY <1>22, <1>0, GoKeeps DEF Restore
    <2>3. UNCHANGED <<verifier, overlapped>>
      BY <1>22 DEF Restore
    <2>4. worker[w].job \in Jobs
      BY <1>j, <2>1
    <2>5. model' = model /\ worker[w].pc = "restore"
      BY <1>22 DEF Restore, At
    <2>6. backup[worker[w].job] # NoFile => dest' = backup[worker[w].job]
      BY <1>22 DEF Restore
    <2>9. ~overlapped /\ Aware(worker[w])
                      /\ (model.status = "available" => Kept) =>
              /\ model'.status = "available" => Kept'
              /\ worker'[w].pc # "idle" => Aware(worker[w])'
      BY <2>2, <2>4, <2>5, <2>6 DEF Aware, Kept
    <2> QED BY <1>0, <2>1, <2>2, <2>3, <2>9, AtModel
  <1>23. ASSUME NEW w \in Workers, DropBackup(w) PROVE Alone'
    <2>1. UsesModel(w)
      BY <1>23, <1>d DEF DropBackup, At, SetRunning, DownloadLabel
    <2>2. /\ \A v \in Workers : v # w => worker'[v] = worker[v]
          /\ worker'[w].pc = "complete" /\ worker'[w].job = worker[w].job
          /\ worker'[w].preserve = worker[w].preserve
          /\ worker'[w].part = worker[w].part
      BY <1>23, <1>0, GoKeeps DEF DropBackup
    <2>3. UNCHANGED <<verifier, overlapped>>
      BY <1>23 DEF DropBackup
    <2>4. worker[w].job \in Jobs
      BY <1>j, <2>1
    <2>5. UNCHANGED <<model, dest>> /\ worker[w].pc = "drop"
      BY <1>23 DEF DropBackup, At
    <2>9. ~overlapped /\ Aware(worker[w])
                      /\ (model.status = "available" => Kept) =>
              /\ model'.status = "available" => Kept'
              /\ worker'[w].pc # "idle" => Aware(worker[w])'
      BY <2>2, <2>5 DEF Aware, Kept
    <2> QED BY <1>0, <2>1, <2>2, <2>3, <2>9, AtModel
  <1>24. ASSUME NEW w \in Workers, LoseModel(w) PROVE Alone'
    <2>1. UsesModel(w)
      BY <1>24, <1>d DEF LoseModel, At, SetRunning, DownloadLabel
    <2>2. /\ \A v \in Workers : v # w => worker'[v] = worker[v]
          /\ worker'[w].pc = "fail" /\ worker'[w].job = worker[w].job
          /\ worker'[w].preserve = worker[w].preserve
          /\ worker'[w].part = worker[w].part
      BY <1>24, <1>0, GoKeeps DEF LoseModel
    <2>3. UNCHANGED <<verifier, overlapped>>
      BY <1>24 DEF LoseModel
    <2>4. worker[w].job \in Jobs
      BY <1>j, <2>1
    <2>5. /\ UNCHANGED <<dest, backup>> /\ worker[w].pc = "loseModel"
          /\ model'.sha = model.sha
          /\ model'.status = "available" => worker[w].preserve
      BY <1>24, <1>m DEF LoseModel, At
    <2>6. Kept' = Kept
      BY <2>5 DEF Kept
    <2>9. ~overlapped /\ Aware(worker[w])
                      /\ (model.status = "available" => Kept) =>
              /\ model'.status = "available" => Kept'
              /\ worker'[w].pc # "idle" => Aware(worker[w])'
      BY <2>2, <2>5, <2>6 DEF Aware
    <2> QED BY <1>0, <2>1, <2>2, <2>3, <2>9, AtModel
  <1>25. ASSUME NEW w \in Workers, BeginUpload(w) PROVE Alone'
    <2>1. ~UsesModel(w)
      BY <1>25, <1>u DEF BeginUpload, At, UploadLabel, UsesModel
    <2>2. \A v \in Workers : v # w => worker'[v] = worker[v]
      BY <1>25, <1>w DEF BeginUpload, Go, Idle
    <2> QED BY <1>25, <1>0, <2>1, <2>2, Quiet DEF BeginUpload, modelVars
  <1>26. ASSUME NEW w \in Workers, AllSent(w) PROVE Alone'
    <2>1. ~UsesModel(w)
      BY <1>26, <1>u DEF AllSent, At, UploadLabel, UsesModel
    <2>2. \A v \in Workers : v # w => worker'[v] = worker[v]
      BY <1>26, <1>w DEF AllSent, Go, Idle
    <2> QED BY <1>26, <1>0, <2>1, <2>2, Quiet DEF AllSent, modelVars
  <1>27. ASSUME NEW w \in Workers, Verify(w) PROVE Alone'
    <2>1. ~UsesModel(w)
      BY <1>27, <1>u DEF Verify, At, UploadLabel, UsesModel
    <2>2. \A v \in Workers : v # w => worker'[v] = worker[v]
      BY <1>27, <1>w DEF Verify, Go, Idle
    <2> QED BY <1>27, <1>0, <2>1, <2>2, Quiet DEF Verify, modelVars
  <1>28. ASSUME NEW w \in Workers, RecordEntries(w) PROVE Alone'
    <2>1. ~UsesModel(w)
      BY <1>28, <1>u DEF RecordEntries, At, UploadLabel, UsesModel
    <2>2. \A v \in Workers : v # w => worker'[v] = worker[v]
      BY <1>28, <1>w DEF RecordEntries, Go, Idle
    <2> QED BY <1>28, <1>0, <2>1, <2>2, Quiet DEF RecordEntries, modelVars
  <1>29. ASSUME NEW w \in Workers, SendProvisional(w) PROVE Alone'
    <2>1. ~UsesModel(w)
      BY <1>29, <1>u
      DEF SendProvisional, CopyManifest, At, UploadLabel, UsesModel
    <2>2. \A v \in Workers : v # w => worker'[v] = worker[v]
      BY <1>29, <1>w DEF SendProvisional, CopyManifest, Go, Idle
    <2> QED BY <1>29, <1>0, <2>1, <2>2, Quiet
    DEF SendProvisional, CopyManifest, modelVars
  <1>30. ASSUME NEW w \in Workers, Check(w) PROVE Alone'
    <2>1. ~UsesModel(w)
      BY <1>30, <1>u DEF Check, At, UploadLabel, UsesModel
    <2>2. \A v \in Workers : v # w => worker'[v] = worker[v]
      BY <1>30, <1>w DEF Check, Go, Idle
    <2> QED BY <1>30, <1>0, <2>1, <2>2, Quiet DEF Check, modelVars
  <1>31. ASSUME NEW w \in Workers, SendFinal(w) PROVE Alone'
    <2>1. ~UsesModel(w)
      BY <1>31, <1>u DEF SendFinal, CopyManifest, At, UploadLabel, UsesModel
    <2>2. \A v \in Workers : v # w => worker'[v] = worker[v]
      BY <1>31, <1>w DEF SendFinal, CopyManifest, Go, Idle
    <2> QED BY <1>31, <1>0, <2>1, <2>2, Quiet
    DEF SendFinal, CopyManifest, modelVars
  <1>32. ASSUME NEW w \in Workers, Validate(w) PROVE Alone'
    <2>1. ~UsesModel(w)
      BY <1>32, <1>u DEF Validate, At, UploadLabel, UsesModel
    <2>2. \A v \in Workers : v # w => worker'[v] = worker[v]
      BY <1>32, <1>w DEF Validate, Go, Idle
    <2> QED BY <1>32, <1>0, <2>1, <2>2, Quiet DEF Validate, modelVars
  <1>33. ASSUME NEW w \in Workers, NEW f \in Files, Send(w, f) PROVE Alone'
    <2>1. ~UsesModel(w)
      BY <1>33, <1>u DEF Send, At, UploadLabel, UsesModel
    <2>2. \A v \in Workers : v # w => worker'[v] = worker[v]
      BY <1>33, <1>w DEF Send, Go, Idle
    <2> QED BY <1>33, <1>0, <2>1, <2>2, Quiet DEF Send, modelVars
  <1>34. ASSUME NEW w \in Workers, NEW f \in Files, Sent(w, f) PROVE Alone'
    <2>1. ~UsesModel(w)
      BY <1>34, <1>u DEF Sent, At, UploadLabel, UsesModel
    <2>2. \A v \in Workers : v # w => worker'[v] = worker[v]
      BY <1>34, <1>w DEF Sent, Go, Idle
    <2> QED BY <1>34, <1>0, <2>1, <2>2, Quiet DEF Sent, modelVars
  <1> QED
    BY <1>1, <1>2, <1>3, <1>4, <1>5, <1>6, <1>7, <1>8, <1>9, <1>10, <1>11,
       <1>12, <1>13, <1>14, <1>15, <1>16, <1>17, <1>18, <1>19, <1>20, <1>21,
       <1>22, <1>23, <1>24, <1>25, <1>26, <1>27, <1>28, <1>29, <1>30, <1>31,
       <1>32, <1>33, <1>34
    DEF Next, Call, Environment, WorkerStep, DownloadStep, UploadStep

LEMMA AloneStep == ASSUME Shapes, Owned, AllFit, Alone, Next PROVE Alone'
  <1>1. ASSUME StartDownload \/ StartUpload PROVE Alone'
    <2>1. UNCHANGED <<model, dest, backup, verifier, overlapped, worker>>
      BY <1>1 DEF StartDownload, StartUpload, modelVars
    <2>2. RowsStay /\ \A v \in Workers : WorksOn(v)
      BY <1>1, <2>1, StartStep DEF WorksOn, Active
    <2> QED BY <2>1, <2>2, Quiet
  <1>2. ASSUME NEW w \in Workers, NEW call \in submitted, Take(w, call)
        PROVE  Alone'
    <2>1. /\ UNCHANGED <<model, dest, backup, verifier, job>>
          /\ overlapped' = \/ overlapped
                           \/ (job[call.job].kind = "download" /\ ModelInUse)
      BY <1>2 DEF Take
    <2>2. /\ worker'[w].pc = "begin" /\ worker'[w].job = call.job
          /\ \A v \in Workers : v # w => worker'[v] = worker[v]
      BY <1>2, TakeStep
    <2>3. Kept' = Kept
      BY <2>1 DEF Kept
    <2>4. \A v \in Workers : v # w => UsesModel(v)' = UsesModel(v)
      BY <2>1, <2>2 DEF UsesModel
    <2>5. UsesModel(w)' => job[call.job].kind = "download"
      BY <2>1, <2>2 DEF UsesModel
    <2>6. ~overlapped' /\ UsesModel(w)' =>
              ~verifier.on /\ \A v \in Workers : ~UsesModel(v)
      BY <2>1, <2>5 DEF ModelInUse
    <2>7. Aware(worker[w])'
      BY <2>2 DEF Aware
    <2>8. \A v \in Workers :
              v # w /\ Aware(worker[v]) => Aware(worker[v])'
      BY <2>1, <2>2, <2>3 DEF Aware
    <2> QED BY <2>1, <2>3, <2>4, <2>6, <2>7, <2>8 DEF Alone
  <1>3. CASE /\ ~StartDownload /\ ~StartUpload
             /\ \A w \in Workers, call \in submitted : ~Take(w, call)
    BY <1>3, UsualStep, AloneUsual
  <1> QED BY <1>1, <1>2, <1>3

-----------------------------------------------------------------------------
(* what the jobs promise *)

JobsInv == Owned /\ AllFit /\ Alone

LEMMA JobsInductive == Spec => [](IInv /\ JobsInv)
  <1>1. Init => JobsInv
    <2> SUFFICES ASSUME Init PROVE JobsInv
      OBVIOUS
    <2>1. \A w \in Workers : worker[w].pc = "idle"
      BY DEF Init, IdleWorker
    <2>2. Owned
      BY <2>1 DEF Init, Owned, Active
    <2>3. AllFit
      BY <2>1 DEF AllFit, Active
    <2>4. model.status # "available" /\ ~verifier.on
      BY DEF Init, NoVerifier
    <2>5. Alone
      BY <2>1, <2>4 DEF Alone, UsesModel
    <2> QED BY <2>2, <2>3, <2>5 DEF JobsInv
  <1>2. IInv /\ JobsInv /\ [Next]_vars => JobsInv'
    <2> SUFFICES ASSUME IInv, JobsInv, [Next]_vars PROVE JobsInv'
      OBVIOUS
    <2>1. Shapes
      BY ShapesAreTypes DEF IInv
    <2>2. CASE Next
      BY <2>1, <2>2, OwnedStep, FitsStep, AloneStep DEF JobsInv
    <2>3. CASE UNCHANGED vars
      <3> USE <2>3 DEF vars
      <3>1. Owned'
        BY DEF JobsInv, Owned, Active
      <3>2. AllFit'
        BY DEF JobsInv, AllFit, Active, Fits, Hashing
      <3>3. Alone'
        <4>1. Kept' = Kept
          BY DEF Kept
        <4>2. \A w \in Workers : Aware(worker[w])' = Aware(worker[w])
          BY <4>1 DEF Aware
        <4> QED BY <4>1, <4>2 DEF JobsInv, Alone, UsesModel
      <3> QED BY <3>1, <3>2, <3>3 DEF JobsInv
    <2> QED BY <2>2, <2>3
  <1> QED BY <1>1, <1>2, Inductive, PTL DEF Spec

\* As long as no two calls on the model overlap, what an AVAILABLE row names is
\* at the path of the model or in a backup beside it, for any threads, jobs,
\* crashes, exceptions and changes of the remote: between the two renames of a
\* replacement the backup has it, an undone commit brings it back, and a row
\* that was not to be preserved is AVAILABLE only after the commit.
\* (_copy_model_with_retry, _finish_model_failure, verify_model)
THEOREM RowsCopyIsKept == Spec => []RowsCopyKept
  <1>1. JobsInv => RowsCopyKept
    BY DEF JobsInv, Alone, RowsCopyKept, Kept
  <1> QED BY <1>1, JobsInductive, PTL

\* An upload that compares hashes is COMPLETED only if the remote held all of
\* the snapshot at one moment while the job was RUNNING, whatever other jobs,
\* other users of the remote and rclones without a parent do to it.
\* (upload_snapshot, _verify_remote_snapshot)
THEOREM CompletionMeansWhole == Spec => CompletedWasWhole
  <1>1. IInv /\ JobsInv /\ [Next]_vars =>
            [\A j \in Jobs :
                /\ job[j].kind = "upload" /\ settings.hash
                /\ settings.verify \in {"full_checksum", "remote_hash_and_size"}
                /\ job[j].status # "completed" /\ job'[j].status = "completed"
                => whole[j]]_vars
    <2> SUFFICES ASSUME IInv, JobsInv, Next, NEW j \in Jobs,
                        job[j].kind = "upload", settings.hash,
                        settings.verify \in {"full_checksum",
                                             "remote_hash_and_size"},
                        job[j].status # "completed",
                        job'[j].status = "completed"
                 PROVE  whole[j]
      OBVIOUS
    <2>1. Shapes /\ Owned /\ AllFit /\ Hashing
      BY ShapesAreTypes DEF IInv, JobsInv, Hashing
    <2> QED BY <2>1, CompletesWhole
  <1> QED BY <1>1, JobsInductive, PTL DEF Spec, CompletedWasWhole

=============================================================================
