-------------------------- MODULE DatasetSnapshot --------------------------
(***************************************************************************)
(* DatasetSnapshotService: fixed copies of the accepted images and their   *)
(* captions.  A snapshot is previewed and confirmed in the user interface, *)
(* made by a thread of the application in "<id>.creating", renamed as a    *)
(* whole, and only then written to the database.  A start of any           *)
(* application takes up directories that were renamed without their rows   *)
(* having been committed; the user may have a snapshot checked again at    *)
(* any time.                                                               *)
(*                                                                         *)
(* One project.  The bytes of an image are a number, 0 being those its row *)
(* was imported with; a caption is the number of its revision; "warned"    *)
(* stands for whatever the inspections and similarity groups warn of.      *)
(* Settings and disk space do not change.                                  *)
(***************************************************************************)
EXTENDS Naturals

CONSTANTS
    Processes,   \* applications, each with one thread that makes snapshots
    Snapshots,   \* ids of snapshots
    Images,      \* images of the project, numbered in the order of their ids
    MaxChanges,  \* changes of the images (a bound)
    MaxCalls,    \* calls of cancel and revalidate (a bound)
    MaxFailures  \* crashes, failing files or database, damage (a bound)

ASSUME ImagesAssumption == Images \subseteq Nat
ASSUME LimitsAssumption ==
    /\ MaxChanges \in Nat /\ MaxCalls \in Nat /\ MaxFailures \in Nat

VARIABLES
    image,      \* image[i]: the image as the database and its file have it
    snapshot,   \* snapshot[s]: the rows of the snapshot s and of its job
    dir,        \* dir[s]: the directory of s
    task,       \* task[s]: the call of create_snapshot_sync for s
    start,      \* start[p]: where the start of the application p is
    check,      \* a call of revalidate
    shown,      \* history: shown[s] is the preview that the user confirmed
    refailed,   \* history: rows failed for being CREATING that were not any more
    changes, calls, failures

snapshotVars ==
    <<image, snapshot, dir, task, start, check, shown, refailed, changes, calls,
      failures>>
bounds == <<changes, calls>>

Image == [accepted : BOOLEAN, bytes : 0..1, caption : 1..(MaxChanges + 1),
          warned : BOOLEAN]
\* A preview, a directory and a set of rows say for some images what they are.
Content == [bytes : 0..2, caption : 0..(MaxChanges + 1)]
Contents == UNION {[I -> Content] : I \in SUBSET Images}
Broken == [bytes |-> 2, caption |-> 0]
Nothing == [i \in {} |-> Broken]
\* What the one says, and what the other says of further images.
With(one, other) == [i \in DOMAIN one \cup DOMAIN other |->
                        IF i \in DOMAIN one THEN one[i] ELSE other[i]]

Open == {"creating", "db_finalization_pending"}
Status == {"none", "failed", "canceled", "completed", "corrupted"} \cup Open
Row == [status : Status, cancel : BOOLEAN, items : Contents,
        hash : Contents, issues : SUBSET Images]
NoRow == [status |-> "none", cancel |-> FALSE, items |-> Nothing,
          hash |-> Nothing, issues |-> {}]

\* The manifest is written last; it names every file with its digest.
Dir == [place : {"none", "creating", "final"}, files : Contents,
        manifest : Contents]
NoDir == [place |-> "none", files |-> Nothing, manifest |-> Nothing]

Preview == [content : Contents, issues : SUBSET Images]
NoPreview == [content |-> Nothing, issues |-> {}]

TaskLabel == {"begin", "insert", "copy", "rename", "commit", "cleanup", "mark"}
\* "end" is the status that "mark" will write.
Task == [pc : TaskLabel \cup {"none"}, app : SUBSET Processes,
         end : {"failed", "canceled", "db_finalization_pending"}]

\* What a session has loaded of a row; it flushes by the primary key, and the
\* columns alone that differ from what it has loaded.
Loaded == [status : Status, hash : Contents]
Unread == [status |-> "none", hash |-> Nothing]
Load(r) == [status |-> r.status, hash |-> r.hash]
Flushed(r, loaded, status, hash) ==
    [r EXCEPT !.status = IF loaded.status = status THEN @ ELSE status,
              !.hash = IF loaded.hash = hash THEN @ ELSE hash]

\* "current" is the record being recovered, "loaded" what was read of it and
\* "good" what its verification said; "dead" is history: the snapshots whose
\* thread had ended when the records were listed.
Start == [pc : {"down", "list", "recover", "store", "spoil", "stale", "up"},
          todo : SUBSET Snapshots, current : SUBSET Snapshots,
          loaded : Loaded, good : BOOLEAN, dead : SUBSET Snapshots]
StartAt(pc) == [pc |-> pc, todo |-> {}, current |-> {}, loaded |-> Unread,
                good |-> FALSE, dead |-> {}]

Check == [pc : {"idle", "verify", "bad"}, current : SUBSET Snapshots,
          loaded : Loaded]
NoCheck == [pc |-> "idle", current |-> {}, loaded |-> Unread]

SnapshotTypeOK ==
    /\ image \in [Images -> Image]
    /\ snapshot \in [Snapshots -> Row]
    /\ dir \in [Snapshots -> Dir]
    /\ task \in [Snapshots -> Task]
    /\ start \in [Processes -> Start]
    /\ check \in Check
    /\ shown \in [Snapshots -> Preview]
    /\ refailed \subseteq Snapshots
    /\ changes \in 0..MaxChanges /\ calls \in 0..MaxCalls
    /\ failures \in 0..MaxFailures

SnapshotInit ==
    /\ image = [i \in Images |-> [accepted |-> TRUE, bytes |-> 0,
                                  caption |-> 1, warned |-> FALSE]]
    /\ snapshot = [s \in Snapshots |-> NoRow]
    /\ dir = [s \in Snapshots |-> NoDir]
    /\ task = [s \in Snapshots |-> [pc |-> "none", app |-> {},
                                    end |-> "failed"]]
    /\ start = [p \in Processes |-> StartAt("up")]
    /\ check = NoCheck
    /\ shown = [s \in Snapshots |-> NoPreview] /\ refailed = {}
    /\ changes = 0 /\ calls = 0 /\ failures = 0

Failure == failures < MaxFailures /\ failures' = failures + 1

-----------------------------------------------------------------------------
(* The preview. *)

Accepted == {i \in Images : image[i].accepted}
CurrentPreview ==
    [content |-> [i \in Accepted |-> [bytes |-> image[i].bytes,
                                      caption |-> image[i].caption]],
     issues |-> {i \in Accepted : image[i].warned}]

\* An image whose file is not the one its row was made from is an error, and
\* so is a set without images; warnings need to be confirmed.
Errors(preview) ==
    \/ DOMAIN preview.content = {}
    \/ \E i \in DOMAIN preview.content : preview.content[i].bytes # 0

\* The token is made of the contents; the warnings are not part of it.
SameToken(one, other) == one.content = other.content

-----------------------------------------------------------------------------
(* create_snapshot_sync, in the one thread of the application. *)

Busy(p) == \E s \in Snapshots :
              p \in task[s].app /\ task[s].pc \notin {"none", "begin"}
Goto(s, pc) == task' = [task EXCEPT ![s].pc = pc]
EndTask(s) == Goto(s, "none")
EndAs(s, pc, end) == task' = [task EXCEPT ![s].pc = pc, ![s].end = end]

\* The user confirms what the preview shows; the future waits in the queue.
StartSnapshot(p, s) ==
    /\ start[p].pc = "up"
    /\ task[s].pc = "none" /\ shown[s] = NoPreview
    /\ CurrentPreview # NoPreview
    /\ shown' = [shown EXCEPT ![s] = CurrentPreview]
    /\ task' = [task EXCEPT ![s] = [pc |-> "begin", app |-> {p},
                                    end |-> "failed"]]
    /\ UNCHANGED <<image, snapshot, dir, start, check, refailed, bounds,
                   failures>>

\* What was warned of is confirmed, what the token does not cover is not
\* compared; with no warning confirmed, a new one refuses the snapshot.
Agreed(s) ==
    /\ SameToken(CurrentPreview, shown[s])
    /\ ~Errors(CurrentPreview)
    /\ shown[s].issues = {} => CurrentPreview.issues = {}

Begin(s) ==
    /\ task[s].pc = "begin" /\ \A p \in task[s].app : ~Busy(p)
    /\ \/ /\ Agreed(s)
          /\ \A t \in Snapshots : snapshot[t].status \notin Open
          /\ Goto(s, "insert")
       \/ /\ \/ ~Agreed(s)
             \/ \E t \in Snapshots : snapshot[t].status \in Open
          /\ EndTask(s)
    /\ UNCHANGED <<image, snapshot, dir, start, check, shown, refailed, bounds,
                   failures>>

Insert(s) ==
    /\ task[s].pc = "insert"
    /\ snapshot' = [snapshot EXCEPT ![s].status = "creating"]
    /\ dir' = [dir EXCEPT ![s].place = "creating"]
    /\ Goto(s, "copy")
    /\ UNCHANGED <<image, start, check, shown, refailed, bounds, failures>>

\* The images in their order: the flag, the copy and its comparison with the
\* preview's digest, the caption of the preview.
Left(s) == DOMAIN shown[s].content \ DOMAIN dir[s].files
FirstLeft(s) == CHOOSE i \in Left(s) : \A j \in Left(s) : i <= j

\* mutant: the copy is not compared with the preview
CopyIsTaken(s, i) == TRUE

CopyIsGood(s, i) == image[i].bytes = shown[s].content[i].bytes

CopyOf(s, i) ==
    [j \in {i} |-> [bytes |-> image[i].bytes,
                    caption |-> shown[s].content[i].caption]]
CopyImage(s) ==
    /\ task[s].pc = "copy" /\ Left(s) # {} /\ ~snapshot[s].cancel
    /\ CopyIsGood(s, FirstLeft(s))
    /\ dir' = [dir EXCEPT ![s].files = With(@, CopyOf(s, FirstLeft(s)))]
    /\ UNCHANGED <<image, snapshot, task, start, check, shown, refailed, bounds,
                   failures>>

StopCopying(s) ==
    /\ task[s].pc = "copy" /\ Left(s) # {} /\ snapshot[s].cancel
    /\ EndAs(s, "cleanup", "canceled")
    /\ UNCHANGED <<image, snapshot, dir, start, check, shown, refailed, bounds,
                   failures>>

FailCopying(s) ==
    /\ task[s].pc = "copy" /\ ~(snapshot[s].cancel /\ Left(s) # {})
    /\ \/ Left(s) # {} /\ ~CopyIsGood(s, FirstLeft(s)) /\ UNCHANGED failures
       \/ Failure
    /\ EndAs(s, "cleanup", "failed")
    /\ UNCHANGED <<image, snapshot, dir, start, check, shown, refailed, bounds>>

\* Settings, reports and, as the last ones, manifest.json and snapshot.json.
WriteManifest(s) ==
    /\ task[s].pc = "copy" /\ Left(s) = {}
    /\ dir' = [dir EXCEPT ![s].manifest = dir[s].files]
    /\ Goto(s, "rename")
    /\ UNCHANGED <<image, snapshot, start, check, shown, refailed, bounds,
                   failures>>

\* mutant: a cancellation is also looked for after the rename
RenameUnlessCanceled(s) ==
    /\ task[s].pc = "rename"
    /\ dir' = [dir EXCEPT ![s].place = "final"]
    /\ IF snapshot[s].cancel THEN EndAs(s, "mark", "canceled")
                        ELSE Goto(s, "commit")
    /\ UNCHANGED <<image, snapshot, start, check, shown, refailed, bounds,
                   failures>>

Rename(s) ==
    /\ task[s].pc = "rename"
    /\ \/ /\ dir' = [dir EXCEPT ![s].place = "final"]
          /\ Goto(s, "commit") /\ UNCHANGED failures
       \/ /\ Failure /\ EndAs(s, "cleanup", "failed") /\ UNCHANGED dir
    /\ UNCHANGED <<image, snapshot, start, check, shown, refailed, bounds>>

\* The rows of the items are unique for a snapshot and an image: where a start
\* has put them already, the commit fails.
Commit(s) ==
    /\ task[s].pc = "commit"
    /\ \/ /\ snapshot[s].items = Nothing
          /\ snapshot' = [snapshot EXCEPT ![s].status = "completed",
                                          ![s].items = dir[s].manifest,
                                          ![s].hash = dir[s].manifest,
                                          ![s].issues = shown[s].issues]
          /\ EndTask(s) /\ UNCHANGED failures
       \/ /\ \/ snapshot[s].items # Nothing /\ UNCHANGED failures
             \/ Failure
          /\ EndAs(s, "mark", "db_finalization_pending")
          /\ UNCHANGED snapshot
    /\ UNCHANGED <<image, dir, start, check, shown, refailed, bounds>>

\* rmtree with ignore_errors.
Cleanup(s) ==
    /\ task[s].pc = "cleanup"
    /\ \/ dir' = [dir EXCEPT ![s] = NoDir] /\ UNCHANGED failures
       \/ Failure /\ UNCHANGED dir
    /\ Goto(s, "mark")
    /\ UNCHANGED <<image, snapshot, start, check, shown, refailed, bounds>>

\* finish() clears the digests, mark_db_finalization_pending() does not.
\* Both are told the id alone: the status may have become another meanwhile.
Finished(r, loaded, status) == Flushed(r, loaded, status, Nothing)
Mark(s) ==
    /\ task[s].pc = "mark"
    /\ \/ /\ snapshot' = [snapshot EXCEPT ![s] =
                            IF task[s].end = "db_finalization_pending"
                            THEN [@ EXCEPT !.status = task[s].end]
                            ELSE Finished(@, Load(@), task[s].end)]
          /\ UNCHANGED failures
       \/ Failure /\ UNCHANGED snapshot
    /\ EndTask(s)
    /\ UNCHANGED <<image, dir, start, check, shown, refailed, bounds>>

Cancel(s) ==
    /\ snapshot[s].status # "none" /\ ~snapshot[s].cancel
    /\ calls < MaxCalls /\ calls' = calls + 1
    /\ snapshot' = [snapshot EXCEPT ![s].cancel = TRUE]
    /\ UNCHANGED <<image, dir, task, start, check, shown, refailed, changes,
                   failures>>

-----------------------------------------------------------------------------
(* The start of an application: recover_finalized_snapshots, then          *)
(* recover_stale.  Nothing keeps a second application from starting while  *)
(* the thread of the first one makes a snapshot.                           *)

AppCrash(p) ==
    /\ start[p].pc # "down" /\ Failure
    /\ start' = [start EXCEPT ![p] = StartAt("down")]
    /\ task' = [s \in Snapshots |-> IF p \in task[s].app
                                    THEN [task[s] EXCEPT !.pc = "none"]
                                    ELSE task[s]]
    /\ UNCHANGED <<image, snapshot, dir, check, shown, refailed, bounds>>

Launch(p) ==
    /\ start[p].pc = "down"
    /\ start' = [start EXCEPT ![p].pc = "list"]
    /\ UNCHANGED <<image, snapshot, dir, task, check, shown, refailed, bounds,
                   failures>>

\* mutant: only the pending snapshots are listed
RecoverableIfPending == {"db_finalization_pending"}

Recoverable == Open \cup {"failed"}

List(p) ==
    /\ start[p].pc = "list"
    /\ start' = [start EXCEPT
           ![p].pc = "recover",
           ![p].todo = {s \in Snapshots : snapshot[s].status \in Recoverable},
           ![p].dead = {s \in Snapshots :
                           shown[s] # NoPreview /\ task[s].pc = "none"}]
    /\ UNCHANGED <<image, snapshot, dir, task, check, shown, refailed, bounds,
                   failures>>

\* A database that cannot be read is taken for one with nothing to recover.
ListFails(p) ==
    /\ start[p].pc = "list" /\ Failure
    /\ start' = [start EXCEPT ![p].pc = "recover"]
    /\ UNCHANGED <<image, snapshot, dir, task, check, shown, refailed, bounds>>

\* Every file that the manifest names has its digest.
Whole(s) == dir[s].place = "final" /\ dir[s].files = dir[s].manifest

Skip(p, s) ==
    /\ start[p].pc = "recover" /\ s \in start[p].todo
    /\ dir[s].place # "final" \/ snapshot[s].status = "completed"
    /\ start' = [start EXCEPT ![p].todo = @ \ {s}]
    /\ UNCHANGED <<image, snapshot, dir, task, check, shown, refailed, bounds,
                   failures>>

\* The row is loaded, then the files are verified.
Reconstruct(p, s) ==
    /\ start[p].pc = "recover" /\ s \in start[p].todo
    /\ dir[s].place = "final" /\ snapshot[s].status # "completed"
    /\ \E good \in BOOLEAN :
          /\ start' = [start EXCEPT ![p].pc = "store", ![p].good = good,
                                    ![p].loaded = Load(snapshot[s]),
                                    ![p].todo = @ \ {s},
                                    ![p].current = {s}]
          /\ \/ good = Whole(s) /\ UNCHANGED failures
             \/ ~good /\ Whole(s) /\ Failure
    /\ UNCHANGED <<image, snapshot, dir, task, check, shown, refailed, bounds>>

\* One transaction: the missing items, the comparison, the issues, the status.
Restored(s, loaded) ==
    [Flushed(snapshot[s], loaded, "completed", dir[s].manifest) EXCEPT
        !.items = With(@, dir[s].manifest),
        !.issues = @ \cup shown[s].issues]
Agrees(p, s) ==
    /\ start[p].good
    /\ Restored(s, start[p].loaded).items = dir[s].manifest

NextRecord(p) == start' = [start EXCEPT ![p].pc = "recover", ![p].current = {}]
Store(p) ==
    /\ start[p].pc = "store"
    /\ \E s \in start[p].current :
          /\ Agrees(p, s)
          /\ snapshot' = [snapshot EXCEPT ![s] = Restored(s, start[p].loaded)]
    /\ NextRecord(p)
    /\ UNCHANGED <<image, dir, task, check, shown, refailed, bounds, failures>>

\* The handler: it loads the row, lets a COMPLETED one be, and writes.
GiveUp(p) ==
    /\ start[p].pc = "store"
    /\ \E s \in start[p].current :
          /\ \/ ~Agrees(p, s) /\ UNCHANGED failures
             \/ Agrees(p, s) /\ Failure
          /\ \/ snapshot[s].status = "completed" /\ NextRecord(p)
             \/ /\ snapshot[s].status # "completed"
                /\ start' = [start EXCEPT ![p].pc = "spoil",
                                          ![p].loaded = Load(snapshot[s])]
    /\ UNCHANGED <<image, snapshot, dir, task, check, shown, refailed, bounds>>

Spoil(p) ==
    /\ start[p].pc = "spoil"
    /\ \E s \in start[p].current :
          snapshot' = [snapshot EXCEPT
                          ![s] = Finished(@, start[p].loaded, "corrupted")]
    /\ NextRecord(p)
    /\ UNCHANGED <<image, dir, task, check, shown, refailed, bounds, failures>>

\* recover_stale loads the rows that are CREATING, and flushes FAILED; that it
\* cannot does not keep the application from starting.
FindStale(p) ==
    /\ start[p].pc = "recover" /\ start[p].todo = {}
    /\ start' = [start EXCEPT
           ![p].pc = "stale",
           ![p].todo = {s \in Snapshots : snapshot[s].status = "creating"}]
    /\ UNCHANGED <<image, snapshot, dir, task, check, shown, refailed, bounds,
                   failures>>

FailStale(p) ==
    /\ start[p].pc = "stale"
    /\ \/ /\ snapshot' = [s \in Snapshots |->
                  IF s \in start[p].todo
                  THEN [snapshot[s] EXCEPT !.status = "failed"]
                  ELSE snapshot[s]]
          /\ refailed' = refailed \cup
                {s \in start[p].todo : snapshot[s].status # "creating"}
          /\ UNCHANGED failures
       \/ Failure /\ UNCHANGED <<snapshot, refailed>>
    /\ start' = [start EXCEPT ![p].pc = "up", ![p].todo = {}]
    /\ UNCHANGED <<image, dir, task, check, shown, bounds>>

-----------------------------------------------------------------------------
(* revalidate, from the user interface and before an upload: the record is *)
(* read, the files are verified, the status is written.                    *)

Read(s) ==
    /\ check = NoCheck /\ snapshot[s].status # "none"
    /\ calls < MaxCalls /\ calls' = calls + 1
    /\ check' = [pc |-> "verify", current |-> {s}, loaded |-> Load(snapshot[s])]
    /\ UNCHANGED <<image, snapshot, dir, task, start, shown, refailed, changes,
                   failures>>

Verify ==
    /\ check.pc = "verify"
    /\ \E s \in check.current, good \in BOOLEAN :
          /\ \/ /\ good = /\ Whole(s)
                          /\ check.loaded.hash = dir[s].manifest
                          /\ snapshot[s].items = dir[s].manifest
                /\ UNCHANGED failures
             \/ ~good /\ Failure
          /\ check' = IF good THEN NoCheck ELSE [check EXCEPT !.pc = "bad"]
    /\ UNCHANGED <<image, snapshot, dir, task, start, shown, refailed, bounds>>

Condemn ==
    /\ check.pc = "bad"
    /\ snapshot' = [s \in Snapshots |-> IF s \in check.current
                                        THEN Finished(snapshot[s], check.loaded,
                                                      "corrupted")
                                        ELSE snapshot[s]]
    /\ check' = NoCheck
    /\ UNCHANGED <<image, dir, task, start, shown, refailed, bounds, failures>>

-----------------------------------------------------------------------------
(* Everyone else. *)

Edited(i) == [image[i] EXCEPT !.caption = @ + 1]
Selected(i) == [image[i] EXCEPT !.accepted = ~@]
Replaced(i) == [image[i] EXCEPT !.bytes = 1 - @]
Inspected(i) == [image[i] EXCEPT !.warned = ~@]

Change(i) ==
    /\ changes < MaxChanges /\ changes' = changes + 1
    /\ \E new \in {Edited(i), Selected(i), Replaced(i), Inspected(i)} :
          image' = [image EXCEPT ![i] = new]
    /\ UNCHANGED <<snapshot, dir, task, start, check, shown, refailed, calls,
                   failures>>

\* The disk loses what a file of a finished directory had.
Damage(s) ==
    /\ dir[s].place = "final" /\ Failure
    /\ \E i \in DOMAIN dir[s].files :
          dir' = [dir EXCEPT ![s].files[i] = Broken]
    /\ UNCHANGED <<image, snapshot, task, start, check, shown, refailed,
                   bounds>>

Create(s) ==
    \/ Begin(s) \/ Insert(s) \/ CopyImage(s) \/ StopCopying(s)
    \/ FailCopying(s) \/ WriteManifest(s) \/ Rename(s) \/ Commit(s)
    \/ Cleanup(s) \/ Mark(s)

Recover(p) ==
    \/ Launch(p) \/ List(p) \/ ListFails(p)
    \/ Store(p) \/ GiveUp(p) \/ Spoil(p) \/ FindStale(p) \/ FailStale(p)
    \/ \E s \in Snapshots : Skip(p, s) \/ Reconstruct(p, s)

SnapshotNext ==
    \/ \E s \in Snapshots :
          \/ Create(s) \/ Cancel(s) \/ Read(s) \/ Damage(s)
          \/ \E p \in Processes : StartSnapshot(p, s)
    \/ \E p \in Processes : Recover(p) \/ AppCrash(p)
    \/ Verify \/ Condemn
    \/ \E i \in Images : Change(i)

SnapshotSpec == SnapshotInit /\ [][SnapshotNext]_snapshotVars

-----------------------------------------------------------------------------
(* Properties. *)

\* A COMPLETED snapshot holds what the user confirmed, whoever completed it
\* and whatever happened to the images since: its rows and its warnings are
\* those of the confirmed preview (the manifest gives a start what the thread
\* had in its memory), and so are its files, unless the disk has changed them.
\* Its digest is the preview's, or a check has cleared it that a start did not
\* see: revalidate() then refuses the snapshot, it never passes another one.
CompletedIsPreview ==
    \A s \in Snapshots : snapshot[s].status = "completed" =>
        /\ snapshot[s].items = shown[s].content
        /\ snapshot[s].hash \in {shown[s].content, Nothing}
        /\ snapshot[s].issues = shown[s].issues
        /\ dir[s].place = "final"
        /\ \A i \in DOMAIN dir[s].files :
              dir[s].files[i] \in {shown[s].content[i], Broken}
        /\ DOMAIN dir[s].files = DOMAIN shown[s].content

\* A directory that was renamed has a row that a start takes up, or one that
\* is final: no order of the thread's handlers, a cancellation, a crash, a
\* start and a check makes it one that is CANCELED or has no row.
FinalIsKnown ==
    \A s \in Snapshots : dir[s].place = "final" =>
        snapshot[s].status \in Open \cup {"failed", "completed", "corrupted"}

\* Once an application has started, every renamed directory that no thread
\* was working at when its records were listed is COMPLETED, or CORRUPTED:
\* the files that a crash or a failing database left behind are not lost.
\* Two things alone put it off to the next start: the list could not be read
\* (then "dead" is empty), or another start wrote FAILED over what this one
\* had healed, having loaded the row as CREATING before.
StartHeals ==
    [][\A p \in Processes :
          start[p].pc = "stale" /\ start'[p].pc = "up" =>
              \A s \in start[p].dead \ refailed' : dir[s].place = "final" =>
                  snapshot'[s].status \in {"completed", "corrupted"}]_snapshotVars
=============================================================================
