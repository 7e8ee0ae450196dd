-------------------------- MODULE TrainingProgress --------------------------
(***************************************************************************)
(* TrainingProgressService for one job: the trainer writes its two logs    *)
(* and its LoRA file while the monitor of the job, a user who asks for the *)
(* progress or the artifacts to be read again and, after a restart, the    *)
(* start of the application read them, each in a thread of its own.  What  *)
(* they find is kept in one row of training_progress, in the metric points *)
(* and in one row of training_artifacts.                                   *)
(*                                                                         *)
(* A log is a sequence of halves of lines, so that a chunk may end within  *)
(* a line; each line reports the trainer's step, although the parser takes *)
(* any pair of numbers for one.  Epochs, which are treated as steps are,   *)
(* the values of the metrics, speeds, times, warnings and bytes that are   *)
(* cut within a character are left out.                                    *)
(***************************************************************************)
EXTENDS Naturals, Sequences, FiniteSetsExt

CONSTANTS
    Readers,    \* threads that read the logs or the artifacts
    MaxChunk,   \* training_progress_read_bytes, in halves of lines
    Initial,    \* initial_step of a job that was resumed, 0 for NULL
    Replaced,   \* streams whose log may be replaced (a bound)
    MaxWrites,  \* lines and LoRA files that the trainer writes (a bound)
    MaxMishaps  \* crashes, exceptions, and logs that cannot be read or are
                \* replaced (a bound)

ASSUME ChunkAssumption == MaxChunk \in Nat \ {0}
ASSUME ProgressAssumption ==
    /\ Initial \in Nat /\ MaxWrites \in Nat /\ MaxMishaps \in Nat

Streams == {"stdout", "stderr"}

VARIABLES
    trainer,   \* what the trainer has written
    log,       \* log[s]: the file of the stream s
    lora,      \* the LoRA file
    row,       \* the row in training_progress
    metrics,   \* the steps that may have a point in training_metric_points
    artifact,  \* the row in training_artifacts
    reader,    \* reader[r]: what a thread is doing
    swapped,   \* a log was read on from where the one it replaced was left
    mishaps

progressVars ==
    <<trainer, log, lora, row, metrics, artifact, reader, swapped, mishaps>>
trainerVars == <<trainer, log, lora>>
rowVars == <<row, metrics, artifact>>

\* A resumed trainer counts from its start or goes on from the state's step.
Steps == 0..(Initial + MaxWrites)
Trainer == [counts : {"local", "cumulative"}, step : Steps,
            lines : 0..MaxWrites]

\* "key" stands for the inode, 0 for no file key; "file" tells the files apart
\* and is known to no one: of a cursor the one that its offset is in.
Half == [line : 1..MaxWrites, step : Steps, half : {"head", "tail"}]
Files == 1..(MaxMishaps + 1)
Log == [file : Files, key : Files, text : Seq(Half)]
Cursor == [offset : 0..(2 * MaxWrites), key : Files \cup {0},
           file : Files \cup {0}]
NoCursor == [offset |-> 0, key |-> 0, file |-> 0]

\* A save changes the size or the time of the file: "version" stands for both.
Lora == [version : 0..MaxWrites, whole : BOOLEAN]
NoLora == [version |-> 0, whole |-> FALSE]

\* The aggregate's step, 0 for None, the remainders of the streams, the
\* cursors, the way in which a resumed trainer counts, and the step that is
\* shown; without "exists" there is no row.
Progress == [exists : BOOLEAN, raw : Nat, rest : [Streams -> Seq(Half)],
             cursor : [Streams -> Cursor],
             mode : {"unknown", "local", "cumulative"}, step : Nat]
NoProgress == [exists |-> FALSE, raw |-> 0, rest |-> [s \in Streams |-> <<>>],
               cursor |-> [s \in Streams |-> NoCursor],
               mode |-> "unknown", step |-> 0]

Artifact == [status : {"none", "valid", "invalid", "changing"}, sha : Lora]
NoArtifact == [status |-> "none", sha |-> NoLora]

\* "previous" is the row that was selected and then the one that will be
\* written; "loaded" is the row as the session has it; "chunk" is what was read
\* of each stream, and where that begins while only "looked" is true; "before"
\* is the first stat of the LoRA file; "locked" says that the transaction has
\* begun to write.
Chunk == [data : Seq(Half), cursor : Cursor, reset : BOOLEAN]
NoChunk == [data |-> <<>>, cursor |-> NoCursor, reset |-> FALSE]
Reader == [pc : {"idle", "stdout", "stderr", "save", "stat", "hash", "again",
                 "commit"},
           previous : Progress, loaded : Progress, looked : BOOLEAN,
           chunk : [Streams -> Chunk], points : SUBSET Nat,
           locked : BOOLEAN, before : Lora, found : Artifact]
Idle == [pc |-> "idle", previous |-> NoProgress, loaded |-> NoProgress,
         looked |-> FALSE, chunk |-> [s \in Streams |-> NoChunk],
         points |-> {}, locked |-> FALSE, before |-> NoLora, found |-> NoArtifact]

ProgressTypeOK ==
    /\ trainer \in Trainer /\ log \in [Streams -> Log] /\ lora \in Lora
    /\ row \in Progress /\ metrics \subseteq Nat /\ artifact \in Artifact
    /\ reader \in [Readers -> Reader]
    /\ swapped \in BOOLEAN /\ mishaps \in 0..MaxMishaps

ProgressInit ==
    /\ trainer \in {[counts |-> "local", step |-> 0, lines |-> 0],
                    [counts |-> "cumulative", step |-> Initial, lines |-> 0]}
    /\ log = [s \in Streams |-> [file |-> 1, key |-> 1, text |-> <<>>]]
    /\ lora = NoLora
    /\ row = NoProgress /\ metrics = {} /\ artifact = NoArtifact
    /\ reader = [r \in Readers |-> Idle]
    /\ swapped = FALSE /\ mishaps = 0

Mishap == mishaps < MaxMishaps /\ mishaps' = mishaps + 1

-----------------------------------------------------------------------------
(* The trainer. *)

Ends(text) == {n \in DOMAIN text : text[n].half = "tail"}
LastEnd(text) == Max(Ends(text) \cup {0})
Written(text) == Len(text) = LastEnd(text)

\* The trainer does one thing after the other.
MayWrite ==
    /\ trainer.lines + lora.version < MaxWrites
    /\ \A s \in Streams : Written(log[s].text)
    /\ lora # NoLora => lora.whole

\* Both streams may report a step; a resumed one may begin with Initial.
WriteHead(s) ==
    /\ MayWrite
    /\ \E step \in {trainer.step, trainer.step + 1} \ {0} :
          /\ trainer' = [trainer EXCEPT !.step = step, !.lines = @ + 1]
          /\ log' = [log EXCEPT ![s].text =
                        Append(@, [line |-> trainer.lines + 1, step |-> step,
                                   half |-> "head"])]
    /\ UNCHANGED <<lora, rowVars, reader, swapped, mishaps>>

WriteTail(s) ==
    /\ ~Written(log[s].text)
    /\ log' = [log EXCEPT ![s].text =
                  Append(@, [@[Len(@)] EXCEPT !.half = "tail"])]
    /\ UNCHANGED <<trainer, lora, rowVars, reader, swapped, mishaps>>

\* Another file takes the place of the log, between two lines.  It may have an
\* inode that was free again, and a log that is truncated keeps its own.
Rotate(s) ==
    /\ s \in Replaced /\ Mishap
    /\ Written(log[s].text) /\ log[s].text # <<>>
    /\ LET file == log[s].file + 1
       IN  \E key \in 1..file :
              log' = [log EXCEPT ![s] =
                         [file |-> file, key |-> key, text |-> <<>>]]
    /\ UNCHANGED <<trainer, lora, rowVars, reader, swapped>>

BeginSave ==
    /\ MayWrite
    /\ lora' = [version |-> lora.version + 1, whole |-> FALSE]
    /\ UNCHANGED <<trainer, log, rowVars, reader, swapped, mishaps>>

EndSave ==
    /\ lora # NoLora /\ ~lora.whole
    /\ lora' = [lora EXCEPT !.whole = TRUE]
    /\ UNCHANGED <<trainer, log, rowVars, reader, swapped, mishaps>>

-----------------------------------------------------------------------------
(* The parser. *)

\* What a line that was put together from other lines' parts reports: a step
\* that no trainer comes to.
Bogus == Initial + MaxWrites + 1

\* The step of the line that ends at n.
StepAt(text, n) ==
    LET first == Max({m \in Ends(text) : m < n} \cup {0}) + 1
    IN  IF n = first + 1 /\ text[first].line = text[n].line
        THEN text[n].step ELSE Bogus

\* mutant: what was left of the log before it was rotated is kept
TextJoined(previous, s, chunk) == previous.rest[s] \o chunk.data

\* What was left of the last chunk comes before the new one, unless the log
\* began again.
Text(previous, s, chunk) ==
    (IF chunk.reset THEN <<>> ELSE previous.rest[s]) \o chunk.data

Remainder(text) == SubSeq(text, LastEnd(text) + 1, Len(text))

\* The steps of the lines; one that is lower than a step before it gives none.
Events(old, text) ==
    {StepAt(text, n) : n \in {k \in Ends(text) :
        \A m \in Ends(text) : m < k => StepAt(text, m) <= StepAt(text, k)}}
    \ 0..(old - 1)

\* Both streams are parsed from the step of the aggregate.
AllEvents(previous, chunk) ==
    UNION {Events(previous.raw, Text(previous, s, chunk[s])) : s \in Streams}
Merged(previous, chunk) ==
    Max(AllEvents(previous, chunk) \cup {previous.raw})

\* mutant: a step that equals the initial one is taken for a count from zero
ModeInclusive(mode, step) ==
    CASE mode # "unknown" \/ step = 0 -> mode
      [] mode = "unknown" /\ step \in 1..Initial -> "local"
      [] OTHER -> "cumulative"

\* Decided by the first step that is seen, and kept.
Mode(mode, step) ==
    CASE mode # "unknown" \/ step = 0 -> mode
      [] mode = "unknown" /\ step \in 1..(Initial - 1) -> "local"
      [] OTHER -> "cumulative"
Offset(mode) == IF mode = "local" THEN Initial ELSE 0

\* A step that went back is not shown.
NewRow(previous, chunk) ==
    LET raw == Merged(previous, chunk)
        mode == Mode(previous.mode, raw)
        step == IF raw = 0 THEN 0 ELSE raw + Offset(mode)
    IN  [exists |-> TRUE, raw |-> raw, mode |-> mode,
         step |-> Max({step, previous.step}),
         rest |-> [s \in Streams |->
                      Remainder(Text(previous, s, chunk[s]))],
         cursor |-> [s \in Streams |-> chunk[s].cursor]]

\* The steps that may get a point: the line has to have a loss, a learning rate
\* or a speed, and where there are too many points some are deleted.
NewPoints(previous, chunk) ==
    LET mode == Mode(previous.mode, Merged(previous, chunk))
    IN  {step + Offset(mode) : step \in AllEvents(previous, chunk)}

-----------------------------------------------------------------------------
(* A thread that reads. *)

Goto(r, pc) == reader' = [reader EXCEPT ![r].pc = pc]
Stop(r) == reader' = [reader EXCEPT ![r] = Idle]

\* The job and the row are selected.
RefreshJob(r) ==
    /\ reader[r] = Idle
    /\ reader' = [reader EXCEPT ![r].pc = "stdout", ![r].previous = row,
                                ![r].loaded = row]
    /\ UNCHANGED <<trainerVars, rowVars, swapped, mishaps>>

RescanArtifacts(r) ==
    /\ reader[r] = Idle
    /\ Goto(r, "stat")
    /\ UNCHANGED <<trainerVars, rowVars, swapped, mishaps>>

\* The stat says where to begin: another file is read from its beginning.
BeginAt(file, cursor) ==
    LET reset == /\ cursor.key # 0
                 /\ cursor.key # file.key \/ Len(file.text) < cursor.offset
    IN  [data |-> <<>>, reset |-> reset,
         cursor |-> [offset |-> IF reset THEN 0 ELSE cursor.offset,
                     key |-> file.key,
                     file |-> IF reset THEN 0 ELSE cursor.file]]

DataOf(text, offset) ==
    SubSeq(text, offset + 1, Min({offset + MaxChunk, Len(text)}))

\* mutant: the next chunk begins at the size that the log has
ChunkToSize(file, begin) ==
    LET data == DataOf(file.text, begin.cursor.offset)
    IN  [data |-> data, reset |-> begin.reset,
         cursor |-> [offset |-> Len(file.text), key |-> begin.cursor.key,
                     file |-> IF data = <<>> THEN begin.cursor.file
                                             ELSE file.file]]

\* What is opened may be another file than the one the stat was made of.
ChunkOf(file, begin) ==
    LET data == DataOf(file.text, begin.cursor.offset)
    IN  [data |-> data, reset |-> begin.reset,
         cursor |-> [offset |-> begin.cursor.offset + Len(data),
                     key |-> begin.cursor.key,
                     file |-> IF data = <<>> THEN begin.cursor.file
                                             ELSE file.file]]

Unavailable == [data |-> <<>>, cursor |-> NoCursor, reset |-> TRUE]

After(s) == IF s = "stdout" THEN "stderr" ELSE "save"

LookAt(r, s) ==
    /\ reader[r].pc = s /\ ~reader[r].looked
    /\ reader' = [reader EXCEPT ![r].looked = TRUE, ![r].chunk[s] =
                     BeginAt(log[s], reader[r].previous.cursor[s])]
    /\ UNCHANGED <<trainerVars, rowVars, swapped, mishaps>>

ReadStream(r, s) ==
    /\ reader[r].pc = s /\ reader[r].looked
    /\ LET begin == reader[r].chunk[s]
           chunk == ChunkOf(log[s], begin)
       IN  /\ reader' = [reader EXCEPT ![r].chunk[s] = chunk,
                             ![r].looked = FALSE, ![r].pc = After(s)]
           /\ swapped' = \/ swapped
                         \/ /\ chunk.data # <<>>
                            /\ begin.cursor.file \notin {0, log[s].file}
    /\ UNCHANGED <<trainerVars, rowVars, mishaps>>

\* At the stat or at the read: nothing was read, and the cursor is lost.
ReadFails(r, s) ==
    /\ reader[r].pc = s /\ Mishap
    /\ reader' = [reader EXCEPT ![r].chunk[s] = Unavailable,
                     ![r].looked = FALSE, ![r].pc = After(s)]
    /\ UNCHANGED <<trainerVars, rowVars, swapped>>

\* The upsert selects the row again, which changes nothing that was loaded.
SelectAgain(r) ==
    /\ reader[r].pc = "save"
    /\ ~reader[r].loaded.exists /\ row.exists
    /\ reader' = [reader EXCEPT ![r].loaded = row]
    /\ UNCHANGED <<trainerVars, rowVars, swapped, mishaps>>

NoneLocked == \A r \in Readers : ~reader[r].locked

\* The header names more bytes than a file has that is being written.
HeaderIsValid == lora.whole

\* The first stat and the header; no file: nothing is found.
Inspected(k) ==
    [k EXCEPT !.pc = IF lora # NoLora /\ HeaderIsValid THEN "hash" ELSE "commit",
              !.before = IF lora # NoLora /\ HeaderIsValid THEN lora ELSE NoLora,
              !.found = CASE lora = NoLora -> NoArtifact
                          [] lora # NoLora /\ ~HeaderIsValid ->
                                [status |-> "invalid", sha |-> NoLora]
                          [] OTHER -> [status |-> "valid", sha |-> NoLora]]

\* Columns that are as they were loaded are not written; all but the step that
\* is shown are one column.
ParserState(p) == <<p.raw, p.rest, p.cursor, p.mode>>
Stored(loaded, new) ==
    LET state == IF loaded.exists /\ ParserState(new) = ParserState(loaded)
                 THEN row ELSE new
        step == IF loaded.exists /\ new.step = loaded.step
                THEN row.step ELSE new.step
    IN  [state EXCEPT !.step = step]

\* The first write takes the database's lock, which is kept to the commit; the
\* parse before it touches nothing that is shared, and the scan begins after
\* it.  The unique index refuses a second row.
Save(r) ==
    /\ reader[r].pc = "save" /\ NoneLocked
    /\ LET k == reader[r]
       IN  IF row.exists /\ ~k.loaded.exists THEN Stop(r)
           ELSE reader' = [reader EXCEPT ![r] = Inspected(
                   [Idle EXCEPT !.locked = TRUE,
                      !.previous = Stored(k.loaded, NewRow(k.previous, k.chunk)),
                      !.points = NewPoints(k.previous, k.chunk)])]
    /\ UNCHANGED <<trainerVars, rowVars, swapped, mishaps>>

Stat(r) ==
    /\ reader[r].pc = "stat"
    /\ reader' = [reader EXCEPT ![r] = Inspected(@)]
    /\ UNCHANGED <<trainerVars, rowVars, swapped, mishaps>>

\* mutant: the file is not looked at again after it was read
AnyFile(r) == TRUE

SameFile(r) == reader[r].before = lora

\* The bytes are those of one moment; the second stat comes after it.
Hash(r) ==
    /\ reader[r].pc = "hash"
    /\ reader' = [reader EXCEPT ![r].found.sha = lora, ![r].pc = "again"]
    /\ UNCHANGED <<trainerVars, rowVars, swapped, mishaps>>

StatAgain(r) ==
    /\ reader[r].pc = "again"
    /\ reader' = [reader EXCEPT ![r].pc = "commit", ![r].found =
                     IF SameFile(r) THEN @
                     ELSE [status |-> "changing", sha |-> NoLora],
                     ![r].before = NoLora]
    /\ UNCHANGED <<trainerVars, rowVars, swapped, mishaps>>

\* A rescan writes the artifact only.
Commit(r) ==
    /\ reader[r].pc = "commit"
    /\ reader[r].locked \/ NoneLocked
    /\ IF reader[r].locked
       THEN row' = reader[r].previous /\ metrics' = metrics \cup reader[r].points
       ELSE UNCHANGED <<row, metrics>>
    /\ artifact' = IF reader[r].found = NoArtifact THEN artifact
                   ELSE reader[r].found
    /\ Stop(r)
    /\ UNCHANGED <<trainerVars, swapped, mishaps>>

\* An exception, or the database stays locked: the transaction is undone.
Fail(r) ==
    /\ reader[r] # Idle /\ Mishap
    /\ Stop(r)
    /\ UNCHANGED <<trainerVars, rowVars, swapped>>

\* The trainer outlives the application.
ReadersCrash ==
    /\ Mishap
    /\ reader' = [r \in Readers |-> Idle]
    /\ UNCHANGED <<trainerVars, rowVars, swapped>>

ProgressNext ==
    \/ \E s \in Streams : WriteHead(s) \/ WriteTail(s) \/ Rotate(s)
    \/ BeginSave \/ EndSave
    \/ \E r \in Readers :
          \/ RefreshJob(r) \/ RescanArtifacts(r)
          \/ \E s \in Streams :
                LookAt(r, s) \/ ReadStream(r, s) \/ ReadFails(r, s)
          \/ SelectAgain(r) \/ Save(r) \/ Stat(r) \/ Hash(r) \/ StatAgain(r)
          \/ Commit(r) \/ Fail(r)
    \/ ReadersCrash

ProgressSpec == ProgressInit /\ [][ProgressNext]_progressVars

-----------------------------------------------------------------------------
(* Properties. *)

\* However the chunks are cut and whoever reads at the same time, no step is
\* shown or kept as a point that was put together from the parts of different
\* lines: of the two streams, or of a log and the one that took its place.  The
\* one exception is a log that was replaced after the stat, or by one that has
\* its inode and is not shorter: it is read on as if it were the old one.
LinesNotJoined == ~swapped => row.raw # Bogus /\ Bogus \notin metrics

\* A refresh that was overtaken by another one takes the cursor back with it,
\* or leaves columns as the other one wrote them: every line before the cursor
\* has been taken into account by the aggregate that is stored with it, so that
\* no step is lost to the refreshes to come.
NothingSkipped ==
    ~swapped =>
        \A s \in Streams : row.cursor[s].file = log[s].file =>
            \A n \in Ends(log[s].text) :
                n <= row.cursor[s].offset => log[s].text[n].step <= row.raw

\* What is shown is never ahead of the trainer: the steps that the parent of a
\* resumed job had done are added at most once, and only to a count that began
\* at the resume.
NeverAhead ==
    LET done == trainer.step + IF trainer.counts = "local" THEN Initial ELSE 0
    IN  ~swapped => row.step <= done /\ \A step \in metrics : step <= done

\* An artifact that is VALID has the hash of a file that the trainer had
\* finished, although it saves while the file is read.
ValidIsWhole == artifact.status = "valid" => artifact.sha.whole
=============================================================================
