--------------------------- MODULE TaggingProofs ---------------------------
(***************************************************************************)
(* Theorems about Tagging: a run that is done is whole, its own thread     *)
(* alone ends a run, and the history of a caption is a chain, for any      *)
(* number of images, runs, threads and windows.                            *)
(***************************************************************************)
EXTENDS Tagging, FiniteSetTheorems, SequenceTheorems, WellFoundedInduction,
        TLAPS

(***************************************************************************)
(* The inductive invariant, of the runs and of the captions apart: what is *)
(* done with captions only reads the runs.  EndIsWhole does not follow     *)
(* from itself: the status is written by a thread that counted the         *)
(* failures while it went, which RunFits tells for each of its labels.     *)
(***************************************************************************)

RunsTyped ==
    /\ accepted \subseteq Images
    /\ run \in [Runs -> Run]
    /\ result \in [Runs -> [Images -> Result]]
    /\ task \in [Runs -> Task]

SomeFailed(r) == \E i \in run[r].target : result[r][i].status = "failed"

\* The end that the thread will write tells whether some image failed.
EndTold(r, end) ==
    end \in Usable /\ (end = "partially_failed" <=> SomeFailed(r))

\* What a thread knows of its run, wherever it is, and what is left of it when
\* the thread is gone.
RunFits(r) ==
    /\ \A i \in Images :
          result[r][i].status = "none" => result[r][i] = NoResult
    /\ run[r].status = "none" =>
          /\ task[r].pc = "none" /\ task[r].end = "completed"
          /\ \A i \in Images : result[r][i] = NoResult
    /\ task[r].pc \notin {"none", "handler"} => run[r].status \in Active
    /\ task[r].pc \in {"queued", "load", "look", "tag"} =>
          EndTold(r, task[r].end)
    /\ task[r].pc = "tag" => Todo(r) # {}
    /\ task[r].pc = "finish" /\ task[r].end \in Usable =>
          Todo(r) = {} /\ EndTold(r, task[r].end)
    /\ run[r].status \in Usable =>
          Todo(r) = {} /\ EndTold(r, run[r].status)

\* What a start has set to STALE: rows there are, and once it has asked they
\* are ended for good, since no run becomes active again.
CallFits(w) ==
    /\ call[w] \in Call
    /\ \A r \in call[w].loaded :
          /\ run[r].status # "none"
          /\ call[w].pc = "insert" => run[r].status \notin Active
CallsFit == call \in [Windows -> Call] /\ \A w \in Windows : CallFits(w)

RunsInv == RunsTyped /\ \A r \in Runs : RunFits(r)

\* Windows that are about to do something; each one was counted as an edit.
Busy == {w \in Windows : window[w].pc # "idle"}

\* A window that is done may have made a revision of each image.
Room ==
    /\ IsFiniteSet(Busy) /\ edits \in 0..MaxEdits
    /\ \A i \in Images : Len(caption[i]) + Cardinality(Busy) <= edits + 1

CaptionsTyped ==
    /\ rules \subseteq Tags
    /\ caption \in [Images -> Seq(Revision)]
    /\ window \in [Windows -> Window]

Chained(revisions) ==
    \A n \in DOMAIN revisions :
        revisions[n].before = IF n = 1 THEN {} ELSE revisions[n - 1].tags

CaptionsInv == CaptionsTyped /\ Room /\ RevisionsChained

CountsTyped == selects \in 0..MaxSelects /\ faults \in 0..MaxFaults

IInv == RunsInv /\ CallsFit /\ CaptionsInv /\ CountsTyped

-----------------------------------------------------------------------------
(* runs *)

\* The first image of those that are left is one of them.
LEMMA FirstIsTodo ==
    ASSUME RunsTyped, NEW r \in Runs, Todo(r) # {}
    PROVE  FirstTodo(r) \in Todo(r) /\ FirstTodo(r) \in Images
  <1>1. Todo(r) \subseteq Nat /\ Todo(r) \subseteq Images
    BY ImagesAssumption DEF RunsTyped, Run, Todo
  <1>2. PICK m \in Todo(r) : \A k \in Todo(r) : <<k, m>> \notin OpToRel(<, Nat)
    BY <1>1, NatLessThanWellFounded, WFMin, Zenon
  <1>3. \A k \in Todo(r) : ~(k < m)
    BY <1>1, <1>2, Zenon DEF OpToRel
  <1>4. \A k \in Todo(r) : m <= k
    BY <1>1, <1>3
  <1> QED BY <1>1, <1>4 DEF FirstTodo

\* What one thread does to its task.
LEMMA TaskOf ==
    ASSUME RunsTyped, NEW r \in Runs, NEW t \in Task,
           task' = [task EXCEPT ![r] = t]
    PROVE  /\ task' \in [Runs -> Task] /\ task'[r] = t
           /\ \A q \in Runs \ {r} : task'[q] = task[q]
  BY DEF RunsTyped

LEMMA GotoOf ==
    ASSUME RunsTyped, NEW r \in Runs,
           NEW pc \in {"queued", "load", "look", "tag"}, Goto(r, pc)
    PROVE  /\ task' \in [Runs -> Task]
           /\ task'[r].pc = pc /\ task'[r].end = task[r].end
           /\ \A q \in Runs \ {r} : task'[q] = task[q]
  BY DEF RunsTyped, Goto, Task

LEMMA EndOf ==
    ASSUME RunsTyped, NEW r \in Runs,
           NEW end \in {"completed", "partially_failed", "failed"},
           EndAs(r, end)
    PROVE  /\ task' \in [Runs -> Task]
           /\ task'[r].pc = "finish" /\ task'[r].end = end
           /\ \A q \in Runs \ {r} : task'[q] = task[q]
  BY DEF RunsTyped, EndAs, Task

LEMMA CaughtOf ==
    ASSUME RunsTyped, NEW r \in Runs, Caught(r) \/ Leave(r)
    PROVE  /\ task' \in [Runs -> Task]
           /\ Caught(r) => task'[r].pc = "handler"
           /\ Leave(r) => task'[r].pc = "none"
           /\ \A q \in Runs \ {r} : task'[q] = task[q]
  BY DEF RunsTyped, Caught, Leave, NoTask, Task

\* Only the thread's own step touches a run.
LEMMA RunAlone ==
    ASSUME NEW r \in Runs, RunFits(r), run'[r] = run[r],
           result'[r] = result[r], task'[r] = task[r]
    PROVE  RunFits(r)'
  BY DEF RunFits, EndTold, SomeFailed, Todo

\* A step of a run's thread touches this run only.
LEMMA ThreadTouches ==
    ASSUME RunsTyped, NEW r \in Runs, Execute(r)
    PROVE  \A q \in Runs \ {r} :
              run'[q] = run[q] /\ result'[q] = result[q] /\ task'[q] = task[q]
  <1>1. \A q \in Runs \ {r} : task'[q] = task[q]
    BY DEF RunsTyped, Execute, Begin, LoadModel, Look, Tag, Finish, Handle, Goto,
           EndAs, Caught, Leave
  <1>2. \A q \in Runs \ {r} : run'[q] = run[q]
    BY DEF RunsTyped, Execute, Begin, LoadModel, Look, Tag, Finish, Handle,
           WriteRaises
  <1>3. \A q \in Runs \ {r} : result'[q] = result[q]
    BY DEF RunsTyped, Execute, Begin, LoadModel, Look, Tag, Finish, Handle, Record
  <1> QED BY <1>1, <1>2, <1>3

\* What a thread writes into its row.
LEMMA StatusOf ==
    ASSUME RunsTyped, NEW r \in Runs, NEW status \in RunStatus,
           run' \in {run, [run EXCEPT ![r].status = status]}
    PROVE  /\ run' \in [Runs -> Run]
           /\ run'[r].target = run[r].target
           /\ run'[r].status \in {run[r].status, status}
           /\ run' = [run EXCEPT ![r].status = status] => run'[r].status = status
  <1> DEFINE row == [run[r] EXCEPT !.status = status]
  <1>1. run[r] \in Run
    BY DEF RunsTyped
  <1>2. row \in Run /\ row.status = status /\ row.target = run[r].target
    BY <1>1 DEF Run
  <1>3. run' = run \/ run' = [run EXCEPT ![r] = row]
    BY DEF RunsTyped
  <1> HIDE DEF row
  <1>4. CASE run' = run
    BY <1>1, <1>4 DEF RunsTyped, Run
  <1>5. CASE run' = [run EXCEPT ![r] = row]
    BY <1>2, <1>5 DEF RunsTyped
  <1>6. ASSUME run' = [run EXCEPT ![r].status = status]
        PROVE  run'[r].status = status
    <2>1. run' = [run EXCEPT ![r] = row]
      BY <1>6 DEF row
    <2> QED BY <1>2, <2>1 DEF RunsTyped
  <1>7. /\ run' \in [Runs -> Run]
        /\ run'[r].target = run[r].target
        /\ run'[r].status \in {run[r].status, status}
    BY <1>3, <1>4, <1>5
  <1> QED BY <1>6, <1>7

\* An exception ends the thread's work, and whatever it has written by then is
\* no end that says too much.
LEMMA CaughtStep ==
    ASSUME RunsInv, NEW r \in Runs, Caught(r), UNCHANGED <<accepted, result>>,
           task[r].pc # "none", run' \in [Runs -> Run],
           run'[r].target = run[r].target, run'[r].status # "none",
           run'[r].status \in Usable => Todo(r) = {} /\ EndTold(r, run'[r].status)
    PROVE  RunsTyped' /\ RunFits(r)'
  <1>1. RunsTyped /\ RunFits(r)
    BY DEF RunsInv
  <1>2. task' \in [Runs -> Task] /\ task'[r].pc = "handler"
    BY <1>1, CaughtOf
  <1> QED
    BY <1>1, <1>2 DEF RunsTyped, RunFits, EndTold, SomeFailed, Todo

LEMMA BeginStep ==
    ASSUME RunsInv, NEW r \in Runs, Begin(r) PROVE RunsTyped' /\ RunFits(r)'
  <1>1. RunsTyped /\ RunFits(r) /\ task[r].pc = "queued" /\ run[r] \in Run
        /\ run[r].status \in Active
    BY DEF RunsInv, RunsTyped, Begin, RunFits
  <1>2. UNCHANGED <<accepted, result>> /\ "running" \in RunStatus
    BY DEF Begin, RunStatus, Active
  <1>3. CASE run' = [run EXCEPT ![r].status = "running"] /\ Goto(r, "load")
    <2>1. run' \in [Runs -> Run] /\ run'[r].status = "running"
          /\ run'[r].target = run[r].target
      BY <1>1, <1>2, <1>3, StatusOf
    <2>2. task' \in [Runs -> Task] /\ task'[r].pc = "load"
          /\ task'[r].end = task[r].end
      BY <1>1, <1>3, GotoOf
    <2> QED
      BY <1>1, <1>2, <2>1, <2>2
         DEF RunsTyped, RunFits, EndTold, SomeFailed, Todo, Usable, Active
  <1>4. CASE EndAs(r, "failed") /\ UNCHANGED run
    <2>1. task' \in [Runs -> Task] /\ task'[r].pc = "finish"
          /\ task'[r].end = "failed"
      BY <1>1, <1>4, EndOf
    <2> QED
      BY <1>1, <1>2, <1>4, <2>1
         DEF RunsTyped, RunFits, EndTold, SomeFailed, Todo, Usable
  <1>5. CASE WriteRaises(r, "running") /\ Caught(r)
    <2>1. run' \in [Runs -> Run] /\ run'[r].status \in {run[r].status, "running"}
          /\ run'[r].target = run[r].target
      BY <1>1, <1>2, <1>5, StatusOf DEF WriteRaises
    <2> QED BY <1>1, <1>2, <1>5, <2>1, CaughtStep DEF Usable, Active
  <1> QED BY <1>3, <1>4, <1>5 DEF Begin

LEMMA LoadStep ==
    ASSUME RunsInv, NEW r \in Runs, LoadModel(r)
    PROVE  RunsTyped' /\ RunFits(r)'
  <1>1. RunsTyped /\ RunFits(r) /\ task[r].pc = "load" /\ run[r].status \in Active
    BY DEF RunsInv, LoadModel, RunFits
  <1>2. UNCHANGED <<accepted, run, result>>
    BY DEF LoadModel
  <1>3. CASE Goto(r, "look")
    <2>1. task' \in [Runs -> Task] /\ task'[r].pc = "look"
          /\ task'[r].end = task[r].end
      BY <1>1, <1>3, GotoOf
    <2> QED
      BY <1>1, <1>2, <2>1
         DEF RunsTyped, RunFits, EndTold, SomeFailed, Todo, Usable
  <1>4. CASE Caught(r)
    BY <1>1, <1>2, <1>4, CaughtStep DEF RunsTyped, Usable, Active
  <1> QED BY <1>3, <1>4 DEF LoadModel

LEMMA LookStep ==
    ASSUME RunsInv, NEW r \in Runs, Look(r) PROVE RunsTyped' /\ RunFits(r)'
  <1>1. RunsTyped /\ RunFits(r) /\ task[r].pc = "look" /\ run[r] \in Run
        /\ task[r] \in Task /\ run[r].status \in Active
    BY DEF RunsInv, RunsTyped, Look, RunFits
  <1>2. UNCHANGED <<accepted, result>> /\ EndTold(r, task[r].end)
        /\ "canceled" \in RunStatus
    BY <1>1 DEF Look, RunFits, RunStatus
  <1>3. CASE run' = [run EXCEPT ![r].status = "canceled"] /\ Leave(r)
    <2>1. run' \in [Runs -> Run] /\ run'[r].status = "canceled"
          /\ run'[r].target = run[r].target
      BY <1>1, <1>2, <1>3, StatusOf
    <2>2. task' \in [Runs -> Task] /\ task'[r].pc = "none"
      BY <1>1, <1>3, CaughtOf
    <2> QED BY <1>1, <1>2, <2>1, <2>2 DEF RunsTyped, RunFits, Usable
  <1>4. CASE WriteRaises(r, "canceled") /\ Caught(r)
    <2>1. run' \in [Runs -> Run] /\ run'[r].status \in {run[r].status, "canceled"}
          /\ run'[r].target = run[r].target
      BY <1>1, <1>2, <1>4, StatusOf DEF WriteRaises
    <2> QED BY <1>1, <1>2, <1>4, <2>1, CaughtStep DEF Usable, Active
  <1>5. CASE Todo(r) # {} /\ Goto(r, "tag") /\ UNCHANGED run
    <2>1. task' \in [Runs -> Task] /\ task'[r].pc = "tag"
          /\ task'[r].end = task[r].end
      BY <1>1, <1>5, GotoOf
    <2> QED
      BY <1>1, <1>2, <1>5, <2>1
         DEF RunsTyped, RunFits, EndTold, SomeFailed, Todo
  <1>6. CASE Caught(r) /\ UNCHANGED run
    BY <1>1, <1>2, <1>6, CaughtStep DEF RunsTyped, Usable, Active
  <1>7. CASE Todo(r) = {} /\ EndAs(r, task[r].end) /\ UNCHANGED run
    <2>1. task[r].end \in {"completed", "partially_failed", "failed"}
      BY <1>1 DEF Task
    <2>2. task' \in [Runs -> Task] /\ task'[r].pc = "finish"
          /\ task'[r].end = task[r].end
      BY <1>1, <1>7, <2>1, EndOf
    <2> QED
      BY <1>1, <1>2, <1>7, <2>2
         DEF RunsTyped, RunFits, EndTold, SomeFailed, Todo
  <1> QED BY <1>3, <1>4, <1>5, <1>6, <1>7 DEF Look

LEMMA FinishStep ==
    ASSUME RunsInv, NEW r \in Runs, Finish(r) PROVE RunsTyped' /\ RunFits(r)'
  <1>1. RunsTyped /\ RunFits(r) /\ task[r].pc = "finish" /\ run[r] \in Run
        /\ task[r] \in Task /\ run[r].status \in Active
    BY DEF RunsInv, RunsTyped, Finish, RunFits
  <1>2. UNCHANGED <<accepted, result>> /\ task[r].end \in RunStatus
        /\ task[r].end # "none"
    BY <1>1 DEF Finish, RunStatus, Usable, Task
  <1>3. task[r].end \in Usable => Todo(r) = {} /\ EndTold(r, task[r].end)
    BY <1>1 DEF RunFits
  <1>4. /\ run' \in [Runs -> Run]
        /\ run'[r].status \in {run[r].status, task[r].end}
        /\ run'[r].target = run[r].target
    BY <1>1, <1>2, StatusOf DEF Finish, WriteRaises
  <1>5. CASE Leave(r)
    <2>1. task' \in [Runs -> Task] /\ task'[r].pc = "none"
      BY <1>1, <1>5, CaughtOf
    <2> QED
      BY <1>1, <1>2, <1>3, <1>4, <2>1
         DEF RunsTyped, RunFits, EndTold, SomeFailed, Todo, Usable, Active
  <1>6. CASE Caught(r)
    BY <1>1, <1>2, <1>3, <1>4, <1>6, CaughtStep DEF Usable, Active
  <1> QED BY <1>5, <1>6 DEF Finish

LEMMA HandleStep ==
    ASSUME RunsInv, NEW r \in Runs, Handle(r) PROVE RunsTyped' /\ RunFits(r)'
  <1>1. RunsTyped /\ RunFits(r) /\ task[r].pc = "handler" /\ "failed" \in RunStatus
    BY DEF RunsInv, Handle, RunStatus
  <1>2. UNCHANGED <<accepted, result>> /\ Leave(r)
    BY DEF Handle
  <1>3. /\ run' \in [Runs -> Run]
        /\ run'[r].status \in {run[r].status, "failed"}
        /\ run'[r].target = run[r].target
    BY <1>1, StatusOf DEF Handle, WriteRaises
  <1>4. task' \in [Runs -> Task] /\ task'[r].pc = "none"
    BY <1>1, <1>2, CaughtOf
  <1> QED
    BY <1>1, <1>2, <1>3, <1>4
       DEF RunsTyped, RunFits, EndTold, SomeFailed, Todo, Usable, Active

\* The thread has a result for its first image.
LEMMA Recorded ==
    ASSUME RunsInv, NEW r \in Runs, task[r].pc = "tag",
           NEW status \in {"completed", "failed"}, NEW tags \in SUBSET Tags,
           Record(r, status, tags), UNCHANGED <<accepted, run>>
    PROVE  /\ result' \in [Runs -> [Images -> Result]]
           /\ \A i \in Images :
                 result'[r][i].status = "none" => result'[r][i] = NoResult
           /\ status = "completed" => (SomeFailed(r)' <=> SomeFailed(r))
           /\ status = "failed" => SomeFailed(r)'
  <1> DEFINE x == FirstTodo(r)
             v == [status |-> status, tags |-> tags]
  <1>0. v \in Result /\ v.status = status
    BY DEF Result
  <1>1. RunsTyped /\ RunFits(r) /\ Todo(r) # {} /\ run[r] \in Run
    BY DEF RunsInv, RunsTyped, RunFits
  <1>2. x \in Todo(r) /\ x \in Images
    BY <1>1, FirstIsTodo
  <1>3. x \in run[r].target /\ result[r][x] = NoResult
    BY <1>2 DEF Todo
  <1>7. result' = [result EXCEPT ![r][x] = v]
    BY DEF Record
  <1> HIDE DEF x, v
  <1>4. /\ result' \in [Runs -> [Images -> Result]]
        /\ result'[r][x] = v
        /\ \A i \in Images \ {x} : result'[r][i] = result[r][i]
    BY <1>0, <1>1, <1>2, <1>7 DEF RunsTyped
  <1>5. status = "completed" => (SomeFailed(r)' <=> SomeFailed(r))
    BY <1>0, <1>1, <1>3, <1>4 DEF SomeFailed, NoResult, Run
  <1>6. status = "failed" => SomeFailed(r)'
    BY <1>0, <1>3, <1>4 DEF SomeFailed
  <1> QED BY <1>0, <1>1, <1>4, <1>5, <1>6 DEF RunFits

LEMMA TagStep ==
    ASSUME RunsInv, NEW r \in Runs, Tag(r) PROVE RunsTyped' /\ RunFits(r)'
  <1>1. RunsTyped /\ RunFits(r) /\ task[r].pc = "tag" /\ run[r].status \in Active
    BY DEF RunsInv, RunFits, Tag
  <1>2. UNCHANGED <<accepted, run>> /\ EndTold(r, task[r].end)
    BY <1>1 DEF Tag, RunFits
  <1>3. ASSUME NEW tags \in Predictions, Record(r, "completed", tags),
               Goto(r, "look") \/ Caught(r)
        PROVE  RunsTyped' /\ RunFits(r)'
    <2>1. /\ result' \in [Runs -> [Images -> Result]]
          /\ \A i \in Images :
                result'[r][i].status = "none" => result'[r][i] = NoResult
          /\ SomeFailed(r)' <=> SomeFailed(r)
      BY <1>1, <1>2, <1>3, Recorded, WordsAssumption
    <2>2. /\ task' \in [Runs -> Task]
          /\ \/ task'[r].pc = "look" /\ task'[r].end = task[r].end
             \/ task'[r].pc = "handler"
      BY <1>1, <1>3, GotoOf, CaughtOf
    <2> QED
      BY <1>1, <1>2, <2>1, <2>2 DEF RunsTyped, RunFits, EndTold, Usable, Active
  <1>4. ASSUME Record(r, "failed", {}),
               \/ Caught(r)
               \/ task' = [task EXCEPT ![r] = [pc |-> "look",
                                              end |-> "partially_failed"]]
        PROVE  RunsTyped' /\ RunFits(r)'
    <2> DEFINE t == [pc |-> "look", end |-> "partially_failed"]
    <2>1. /\ result' \in [Runs -> [Images -> Result]]
          /\ \A i \in Images :
                result'[r][i].status = "none" => result'[r][i] = NoResult
          /\ SomeFailed(r)'
      BY <1>1, <1>2, <1>4, Recorded
    <2>2. t \in Task /\ t.pc = "look" /\ t.end = "partially_failed"
      BY DEF Task
    <2>3. Caught(r) \/ task' = [task EXCEPT ![r] = t]
      BY <1>4
    <2> HIDE DEF t
    <2>4. /\ task' \in [Runs -> Task]
          /\ \/ task'[r].pc = "look" /\ task'[r].end = "partially_failed"
             \/ task'[r].pc = "handler"
      BY <1>1, <2>2, <2>3, TaskOf, CaughtOf
    <2> QED
      BY <1>1, <1>2, <2>1, <2>4 DEF RunsTyped, RunFits, EndTold, Usable, Active
  <1>5. CASE Caught(r) /\ UNCHANGED result
    BY <1>1, <1>2, <1>5, CaughtStep DEF RunsTyped, Usable, Active
  <1> QED BY <1>3, <1>4, <1>5 DEF Tag

\* A start writes STALE into runs that have ended and makes one of none.
LEMMA InsertStep ==
    ASSUME RunsInv, CallsFit, NEW w \in Windows, Insert(w)
    PROVE  RunsInv' /\ CallsFit'
  <1>1. RunsTyped /\ (\A q \in Runs : RunFits(q)) /\ CallFits(w)
        /\ call[w].pc = "insert"
    BY DEF RunsInv, CallsFit, Insert
  <1> DEFINE R == Recovered(call[w].loaded)
             row == [status |-> "pending", cancel |-> FALSE,
                     target |-> call[w].target]
  <1>2. PICK r \in Runs : /\ run[r] = NoRun
                          /\ run' = [R EXCEPT ![r] = row]
                          /\ Goto(r, "queued") \/ UNCHANGED task
    BY DEF Insert
  <1>3. UNCHANGED <<accepted, result>> /\ call' = [call EXCEPT ![w] = NoCall]
    BY DEF Insert
  <1>4. R \in [Runs -> Run]
        /\ \A q \in Runs : /\ R[q].target = run[q].target
                           /\ \/ R[q].status = run[q].status
                              \/ /\ run[q].status \notin Active \cup {"none"}
                                 /\ R[q].status = "stale"
    BY <1>1 DEF RunsTyped, Recovered, Run, RunStatus, CallFits
  <1>5. row \in Run /\ row.status = "pending" /\ row.target \subseteq Images
    BY <1>1 DEF Run, RunStatus, Active, CallFits, Call
  <1>6. run[r].status = "none" /\ task[r].pc = "none" /\ task[r].end = "completed"
        /\ \A i \in Images : result[r][i] = NoResult
    BY <1>1, <1>2 DEF RunFits, NoRun
  <1> HIDE DEF row, R
  <1>7. run' \in [Runs -> Run] /\ run'[r] = row
        /\ \A q \in Runs \ {r} : run'[q] = R[q]
    BY <1>2, <1>4, <1>5
  <1>8. /\ task' \in [Runs -> Task] /\ task'[r].end = "completed"
        /\ task'[r].pc \in {"queued", "none"}
        /\ \A q \in Runs \ {r} : task'[q] = task[q]
    BY <1>1, <1>2, <1>6, GotoOf DEF RunsTyped
  <1>9. RunFits(r)'
    <2>1. ~SomeFailed(r)'
      BY <1>3, <1>5, <1>6, <1>7 DEF SomeFailed, NoResult
    <2> QED
      BY <1>3, <1>5, <1>6, <1>7, <1>8, <2>1
         DEF RunFits, EndTold, Usable, Active
  <1>10. ASSUME NEW q \in Runs \ {r} PROVE RunFits(q)'
    BY <1>1, <1>3, <1>4, <1>7, <1>8
       DEF RunFits, EndTold, SomeFailed, Todo, Usable, Active
  <1>11. RunsInv'
    BY <1>1, <1>3, <1>7, <1>8, <1>9, <1>10 DEF RunsInv, RunsTyped
  <1>12. NoCall \in Call /\ NoCall.loaded = {}
    BY DEF NoCall, Call
  <1>13. ASSUME NEW u \in Windows PROVE CallFits(u)'
    <2>1. CASE u = w
      BY <1>3, <1>12, <2>1 DEF CallsFit, CallFits
    <2>2. CASE u # w
      <3>1. call'[u] = call[u] /\ CallFits(u)
        BY <1>3, <2>2 DEF CallsFit
      <3>2. ASSUME NEW q \in call[u].loaded
            PROVE  /\ q \in Runs \ {r} /\ run'[q].status # "none"
                   /\ run[q].status \notin Active => run'[q].status \notin Active
        BY <1>4, <1>6, <1>7, <3>1 DEF CallFits, Call, Active
      <3> QED BY <3>1, <3>2 DEF CallFits
    <2> QED BY <2>1, <2>2
  <1>14. call' \in [Windows -> Call]
    BY <1>3, <1>12 DEF CallsFit
  <1> QED BY <1>11, <1>13, <1>14 DEF CallsFit

\* The first two steps of a start only read.
LEMMA AskStep ==
    ASSUME RunsInv, CallsFit, NEW w \in Windows,
           RecoverStaleRuns(w) \/ \E mode \in Mode : Ask(w, mode)
    PROVE  RunsInv' /\ CallsFit'
  <1>1. RunsTyped /\ CallFits(w) /\ call[w] \in Call
    BY DEF RunsInv, CallsFit, CallFits
  <1>2. UNCHANGED <<accepted, run, result, task>>
    BY DEF RecoverStaleRuns, Ask
  <1>3. RunsInv'
    BY <1>2 DEF RunsInv, RunsTyped, RunFits, EndTold, SomeFailed, Todo
  <1>4. ASSUME NEW c \in Call, call' = [call EXCEPT ![w] = c],
               \A r \in c.loaded :
                  /\ run[r].status # "none"
                  /\ c.pc = "insert" => run[r].status \notin Active
        PROVE  CallsFit'
    BY <1>2, <1>4 DEF CallsFit, CallFits
  <1>5. CASE RecoverStaleRuns(w)
    <2> DEFINE L == {r \in Runs : run[r].status \in Active}
               c == [NoCall EXCEPT !.pc = "ask", !.loaded = L]
    <2>1. c \in Call /\ c.pc = "ask" /\ c.loaded = L
      BY DEF NoCall, Call
    <2>2. call' = [call EXCEPT ![w] = c]
      BY <1>5 DEF RecoverStaleRuns
    <2>3. \A r \in c.loaded : run[r].status # "none"
      BY <2>1 DEF Active
    <2> HIDE DEF c
    <2> QED BY <1>3, <1>4, <2>1, <2>2, <2>3
  <1>6. ASSUME NEW mode \in Mode, Ask(w, mode) PROVE RunsInv' /\ CallsFit'
    <2> DEFINE c == [call[w] EXCEPT !.pc = "insert", !.target = Selected(mode)]
    <2>1. Selected(mode) \in SUBSET Images
      BY <1>1 DEF RunsTyped, Selected, Mode
    <2>2. c \in Call /\ c.pc = "insert" /\ c.loaded = call[w].loaded
      BY <1>1, <2>1 DEF Call
    <2>3. CASE ActiveRuns(w) # {}
      <3>1. NoCall \in Call /\ NoCall.loaded = {}
        BY DEF NoCall, Call
      <3>2. call' = [call EXCEPT ![w] = NoCall]
        BY <1>6, <2>3 DEF Ask
      <3> QED BY <1>3, <1>4, <3>1, <3>2
    <2>4. CASE ActiveRuns(w) = {}
      <3>1. call' = [call EXCEPT ![w] = c]
        BY <1>6, <2>4 DEF Ask, CallsFit
      <3>2. \A r \in c.loaded : r \in Runs /\ run[r].status # "none"
                                /\ run[r].status \notin Active
        BY <1>1, <2>2, <2>4 DEF CallFits, Call, ActiveRuns
      <3> HIDE DEF c
      <3> QED BY <1>3, <1>4, <2>2, <3>1, <3>2
    <2> QED BY <2>3, <2>4
  <1> QED BY <1>5, <1>6

\* A thread makes no run active that has ended, and none of none.
LEMMA ThreadEnds ==
    ASSUME RunsInv, NEW r \in Runs, Execute(r)
    PROVE  /\ run[r].status # "none" /\ run'[r].status # "none"
           /\ run[r].status \notin Active => run'[r].status \notin Active
           /\ result'[r] # result[r] => task[r].pc = "tag"
           /\ task[r].pc # "none" /\ UNCHANGED call
  <1>1. RunsTyped /\ RunFits(r) /\ run[r] \in Run /\ task[r] \in Task
    BY DEF RunsInv, RunsTyped
  <1>2. task[r].pc # "none" /\ UNCHANGED call
    BY DEF Execute, Begin, LoadModel, Look, Tag, Finish, Handle
  <1>3. run[r].status # "none"
    BY <1>1, <1>2 DEF RunFits
  <1>4. CASE Begin(r)
    BY <1>1, <1>3, <1>4, StatusOf
       DEF Begin, WriteRaises, RunFits, Active, RunStatus
  <1>5. CASE LoadModel(r) \/ Tag(r)
    BY <1>3, <1>5 DEF LoadModel, Tag
  <1>6. CASE Look(r)
    BY <1>1, <1>3, <1>6, StatusOf DEF Look, WriteRaises, Active, RunStatus
  <1>7. CASE Finish(r)
    BY <1>1, <1>3, <1>7, StatusOf
       DEF Finish, WriteRaises, Active, Usable, RunStatus, Task
  <1>8. CASE Handle(r)
    BY <1>1, <1>3, <1>8, StatusOf DEF Handle, WriteRaises, Active, RunStatus
  <1>9. result'[r] # result[r] => task[r].pc = "tag"
    BY DEF Execute, Begin, LoadModel, Look, Tag, Finish, Handle
  <1> QED BY <1>2, <1>3, <1>4, <1>5, <1>6, <1>7, <1>8, <1>9 DEF Execute

\* What the calls know survives a step that leaves the status of each run, or
\* ends it.
LEMMA CallsKept ==
    ASSUME CallsFit, UNCHANGED call,
           \A r \in Runs :
              /\ run[r].status # "none" => run'[r].status # "none"
              /\ run[r].status \notin Active \cup {"none"} =>
                    run'[r].status \notin Active
    PROVE  CallsFit'
  BY DEF CallsFit, CallFits, Call

LEMMA RunsStep == ASSUME RunsInv, CallsFit, Next PROVE RunsInv' /\ CallsFit'
  <1>1. RunsTyped /\ \A q \in Runs : RunFits(q)
    BY DEF RunsInv
  <1>2. ASSUME NEW r \in Runs, Execute(r) PROVE RunsInv' /\ CallsFit'
    <2>1. RunsTyped' /\ RunFits(r)'
      BY <1>2, BeginStep, LoadStep, LookStep, TagStep, FinishStep, HandleStep
         DEF Execute
    <2>2. \A q \in Runs \ {r} : RunFits(q)'
      BY <1>1, <1>2, ThreadTouches, RunAlone
    <2>3. CallsFit'
      BY <1>1, <1>2, ThreadTouches, ThreadEnds, CallsKept
    <2> QED BY <2>1, <2>2, <2>3 DEF RunsInv
  <1>3. ASSUME NEW w \in Windows,
               \/ RecoverStaleRuns(w) \/ Insert(w)
               \/ \E mode \in Mode : Ask(w, mode)
        PROVE  RunsInv' /\ CallsFit'
    BY <1>3, AskStep, InsertStep
  <1>4. ASSUME NEW r \in Runs, Cancel(r) PROVE RunsInv' /\ CallsFit'
    <2> DEFINE row == [run[r] EXCEPT !.cancel = TRUE]
    <2>1. row \in Run /\ row.status = run[r].status
          /\ row.target = run[r].target
      BY <1>1 DEF RunsTyped, Run
    <2>2. run' = [run EXCEPT ![r] = row]
      BY <1>1, <1>4 DEF Cancel, RunsTyped
    <2> HIDE DEF row
    <2>3. run' \in [Runs -> Run]
          /\ \A q \in Runs : /\ run'[q].status = run[q].status
                             /\ run'[q].target = run[q].target
      BY <1>1, <2>1, <2>2 DEF RunsTyped
    <2>4. UNCHANGED <<accepted, result, task, call>>
      BY <1>4 DEF Cancel
    <2>5. CallsFit'
      BY <2>3, <2>4, CallsKept
    <2> QED
      BY <1>1, <2>3, <2>4, <2>5
         DEF RunsInv, RunsTyped, RunFits, EndTold, SomeFailed, Todo
  <1>5. CASE Crash
    <2>1. task' \in [Runs -> Task]
          /\ \A q \in Runs : task'[q].pc = "none" /\ task'[q].end = "completed"
      BY <1>5 DEF Crash, Task, NoTask
    <2>2. UNCHANGED <<accepted, run, result>>
      BY <1>5 DEF Crash
    <2>3. CallsFit'
      BY <1>5 DEF Crash, CallsFit, CallFits, NoCall, Call
    <2> QED
      BY <1>1, <2>1, <2>2, <2>3
         DEF RunsInv, RunsTyped, RunFits, EndTold, SomeFailed, Todo
  <1>6. ASSUME NEW i \in Images, Select(i) PROVE RunsInv' /\ CallsFit'
    <2>1. accepted' \subseteq Images /\ UNCHANGED <<run, result, task, call>>
      BY <1>1, <1>6 DEF Select, runVars, RunsTyped
    <2>2. CallsFit'
      BY <2>1, CallsKept
    <2> QED
      BY <1>1, <2>1, <2>2
         DEF RunsInv, RunsTyped, RunFits, EndTold, SomeFailed, Todo
  <1>7. CASE UNCHANGED <<accepted, run, result, task, call>>
    <2>1. CallsFit'
      BY <1>7, CallsKept
    <2> QED
      BY <1>1, <1>7, <2>1 DEF RunsInv, RunsTyped, RunFits, EndTold, SomeFailed, Todo
  <1> QED
    BY <1>2, <1>3, <1>4, <1>5, <1>6, <1>7
       DEF Next, ShowPreview, CheckToken, Apply, SelectCurrent, Flush,
           SaveImageCaption, RestoreFromSource, RestorePrevious, runVars

LEMMA RunsInit == ASSUME Init PROVE RunsInv /\ CallsFit
  <1>1. RunsInv
    BY DEF Init, RunsInv, RunsTyped, Run, RunStatus, NoRun, Result, NoResult, Task,
           NoTask, RunFits, EndTold, Usable
  <1>2. CallsFit
    BY DEF Init, CallsFit, CallFits, NoCall, Call
  <1> QED BY <1>1, <1>2

\* Who changes the row and the results of a run.
RunStepOf(r) ==
    /\ result'[r] # result[r] => task[r].pc = "tag"
    /\ run'[r].status # run[r].status /\ run[r].status # "none" =>
          \/ task[r].pc # "none"
          \/ /\ run[r].status \notin Active
             /\ run'[r].status = "stale"
             /\ \E w \in Windows : r \in call[w].loaded

LEMMA RunChanges ==
    ASSUME RunsInv, CallsFit, Next, NEW r \in Runs
    PROVE  RunStepOf(r)
  <1>1. RunsTyped /\ run[r] \in Run
    BY DEF RunsInv, RunsTyped
  <1>2. ASSUME NEW q \in Runs, Execute(q) PROVE RunStepOf(r)
    <2>1. CASE q = r
      BY <1>2, <2>1, ThreadEnds DEF RunStepOf
    <2>2. CASE q # r
      BY <1>1, <1>2, <2>2, ThreadTouches DEF RunStepOf
    <2> QED BY <2>1, <2>2
  <1>3. ASSUME NEW w \in Windows, Insert(w) PROVE RunStepOf(r)
    <2> DEFINE R == Recovered(call[w].loaded)
               row == [status |-> "pending", cancel |-> FALSE,
                       target |-> call[w].target]
    <2>1. PICK q \in Runs : run[q] = NoRun /\ run' = [R EXCEPT ![q] = row]
      BY <1>3 DEF Insert
    <2>2. UNCHANGED result /\ CallFits(w) /\ call[w].pc = "insert"
      BY <1>3 DEF Insert, CallsFit
    <2>3. CASE q = r
      BY <2>1, <2>2, <2>3 DEF NoRun, RunStepOf
    <2>4. CASE q # r
      <3>1. run'[r] = R[r]
        BY <2>1, <2>4 DEF Recovered
      <3>2. CASE r \in call[w].loaded
        <4>1. R[r].status = "stale"
          BY <1>1, <3>2 DEF Recovered, Run
        <4> QED BY <2>2, <3>1, <3>2, <4>1 DEF RunStepOf, CallFits
      <3>3. CASE r \notin call[w].loaded
        <4>1. R[r] = run[r]
          BY <3>3 DEF Recovered
        <4> QED BY <2>2, <3>1, <4>1 DEF RunStepOf
      <3> QED BY <3>2, <3>3
    <2> QED BY <2>3, <2>4
  <1>4. ASSUME NEW q \in Runs, Cancel(q) PROVE RunStepOf(r)
    BY <1>1, <1>4 DEF Cancel, RunsTyped, Run, RunStepOf
  <1>5. CASE UNCHANGED <<run, result>>
    BY <1>5 DEF RunStepOf
  <1> QED
    BY <1>2, <1>3, <1>4, <1>5
       DEF Next, RecoverStaleRuns, Ask, ShowPreview, CheckToken, Apply,
           SelectCurrent, Flush, SaveImageCaption, RestoreFromSource,
           RestorePrevious, Select, Crash, runVars

-----------------------------------------------------------------------------
(* captions *)

\* A revision that follows the last one makes the chain longer.
LEMMA ChainGrows ==
    ASSUME NEW revisions \in Seq(Revision), Chained(revisions),
           NEW next \in Revision,
           next.before = IF revisions = <<>> THEN {}
                         ELSE revisions[Len(revisions)].tags
    PROVE  /\ Append(revisions, next) \in Seq(Revision)
           /\ Len(Append(revisions, next)) = Len(revisions) + 1
           /\ Chained(Append(revisions, next))
  <1> DEFINE longer == Append(revisions, next)
             len == Len(revisions)
  <1>1. /\ longer \in Seq(Revision) /\ Len(longer) = len + 1 /\ len \in Nat
        /\ \A n \in 1..len : longer[n] = revisions[n]
        /\ longer[len + 1] = next
        /\ DOMAIN longer = 1..(len + 1) /\ DOMAIN revisions = 1..len
        /\ revisions = <<>> <=> len = 0
    BY AppendProperties, LenProperties, EmptySeq
  <1> HIDE DEF longer
  <1>2. ASSUME NEW n \in 1..len
        PROVE  longer[n].before = IF n = 1 THEN {} ELSE longer[n - 1].tags
    BY <1>1, <1>2 DEF Chained
  <1>3. longer[len + 1].before = IF len + 1 = 1 THEN {} ELSE longer[len].tags
    BY <1>1
  <1>4. Chained(longer)
    BY <1>1, <1>2, <1>3 DEF Chained
  <1> QED BY <1>1, <1>4 DEF longer

LEMMA CurrentTyped ==
    ASSUME CaptionsTyped, NEW i \in Images
    PROVE  /\ Current(i) \in Revision
           /\ caption[i] = <<>> => Current(i) = NoTags
           /\ caption[i] # <<>> => Current(i) = caption[i][Len(caption[i])]
  <1>1. caption[i] \in Seq(Revision)
    BY DEF CaptionsTyped
  <1>2. caption[i] # <<>> => caption[i][Len(caption[i])] \in Revision
    BY <1>1, LenProperties, ElementOfSeq, EmptySeq
  <1>3. NoTags \in Revision
    BY DEF NoTags, Revision, Kind
  <1> QED BY <1>2, <1>3 DEF Current

LEMMA CurrentTags ==
    ASSUME NEW i \in Images
    PROVE  Current(i).tags = IF caption[i] = <<>> THEN {}
                             ELSE caption[i][Len(caption[i])].tags
  <1>1. CASE caption[i] = <<>>
    <2>1. Current(i) = NoTags
      BY <1>1, Zenon DEF Current
    <2> QED BY <1>1, <2>1 DEF NoTags
  <1>2. CASE caption[i] # <<>>
    BY <1>2, Zenon DEF Current
  <1> QED BY <1>1, <1>2

\* What a save makes of a caption.
LEMMA SavedFits ==
    ASSUME CaptionsTyped, RevisionsChained, NEW i \in Images,
           NEW tags \in SUBSET Tags, NEW kind \in Kind,
           NEW source \in {"manual", "restored", "bulk_filter"}
    PROVE  /\ Saved(i, tags, kind, source) \in Seq(Revision)
           /\ Len(Saved(i, tags, kind, source)) <= Len(caption[i]) + 1
           /\ Chained(Saved(i, tags, kind, source))
  <1>1. caption[i] \in Seq(Revision) /\ Chained(caption[i])
        /\ Len(caption[i]) \in Nat
    BY LenProperties DEF CaptionsTyped, RevisionsChained, Chained
  <1> DEFINE next == [tags |-> tags, kind |-> kind,
                      before |-> Current(i).tags, edit_source |-> source]
  <1>2. next \in Revision
    BY CurrentTyped DEF Revision
  <1>3. Current(i).tags = IF caption[i] = <<>> THEN {}
                          ELSE caption[i][Len(caption[i])].tags
    BY CurrentTags
  <1>4. next.before = Current(i).tags
    OBVIOUS
  <1>5. \/ Saved(i, tags, kind, source) = caption[i]
        \/ Saved(i, tags, kind, source) = Append(caption[i], next)
    BY Zenon DEF Saved
  <1> HIDE DEF next
  <1>6. /\ Append(caption[i], next) \in Seq(Revision)
        /\ Len(Append(caption[i], next)) = Len(caption[i]) + 1
        /\ Chained(Append(caption[i], next))
    BY <1>1, <1>2, <1>3, <1>4, ChainGrows
  <1>7. CASE Saved(i, tags, kind, source) = caption[i]
    BY <1>1, <1>7
  <1>8. CASE Saved(i, tags, kind, source) = Append(caption[i], next)
    BY <1>1, <1>6, <1>8
  <1> QED BY <1>5, <1>7, <1>8

LEMMA AfterTyped ==
    ASSUME RunsTyped, CaptionsTyped, NEW r \in Runs, NEW drop, NEW policy,
           NEW i \in Images
    PROVE  After(r, drop, policy, i) \subseteq Tags
  <1>1. Current(i).tags \subseteq Tags /\ Triggers \subseteq Tags
        /\ result[r][i].tags \subseteq Tags
    BY CurrentTyped, WordsAssumption DEF RunsTyped, Result, Revision
  <1> QED BY <1>1 DEF After, WithTriggers

LEMMA ChangeTyped ==
    ASSUME RunsTyped, CaptionsTyped, NEW r \in Runs, NEW drop, NEW policy,
           NEW i \in Images
    PROVE  ChangeOf(r, drop, policy, i) \in Change
  <1> DEFINE after == After(r, drop, policy, i)
             before == Current(i).tags
             skip == /\ before = after
                     /\ \/ IsManual(i) /\ policy = "exclude_manual"
                        \/ after = {}
  <1>1. after \in SUBSET Tags
    BY AfterTyped
  <1>2. before \in SUBSET Tags
    BY CurrentTyped DEF Revision
  <1>3. skip \in BOOLEAN
    OBVIOUS
  <1>4. ChangeOf(r, drop, policy, i)
        = [before |-> before, after |-> after, skip |-> skip]
    BY DEF ChangeOf
  <1> HIDE DEF after, before, skip
  <1> QED BY <1>1, <1>2, <1>3, <1>4 DEF Change

LEMMA CountTyped ==
    ASSUME CaptionsTyped, Room, NEW i \in Images
    PROVE  Len(caption[i]) \in Count
  <1>1. Len(caption[i]) \in Nat /\ Cardinality(Busy) \in Nat
    BY LenProperties, FS_CardinalityType DEF CaptionsTyped, Room
  <1> QED BY <1>1, BoundsAssumption DEF Room, Count

LEMMA PreviewTyped ==
    ASSUME RunsTyped, CaptionsTyped, Room, NEW r \in Runs,
           NEW drop \in SUBSET Tags, NEW policy \in Policy
    PROVE  BuildPreview(r, drop, policy) \in Preview
  <1>1. Used(r) \in SUBSET Images /\ accepted \in SUBSET Images
    BY DEF RunsTyped, Used
  <1> DEFINE results == [i \in Used(r) |-> result[r][i].tags]
             revisions == [i \in accepted |-> Len(caption[i])]
             changes == [i \in Used(r) |-> ChangeOf(r, drop, policy, i)]
  <1>2. results \in [Used(r) -> SUBSET Tags]
    BY <1>1 DEF RunsTyped, Result
  <1>3. revisions \in [accepted -> Count]
    BY <1>1, CountTyped
  <1>4. changes \in [Used(r) -> Change]
    BY <1>1, ChangeTyped
  <1>5. results \in UNION {[I -> SUBSET Tags] : I \in SUBSET Images}
    BY <1>1, <1>2
  <1>6. revisions \in UNION {[I -> Count] : I \in SUBSET Images}
    BY <1>1, <1>3
  <1>7. changes \in UNION {[I -> Change] : I \in SUBSET Images}
    BY <1>1, <1>4
  <1>8. BuildPreview(r, drop, policy)
        = [run |-> r, drop |-> drop, policy |-> policy, results |-> results,
           revisions |-> revisions, changes |-> changes]
    BY DEF BuildPreview
  <1> HIDE DEF results, revisions, changes
  <1> QED BY <1>5, <1>6, <1>7, <1>8 DEF Preview

\* What a step makes of one window.
LEMMA WindowOf ==
    ASSUME CaptionsTyped, NEW w \in Windows, NEW v \in Window,
           window' = [window EXCEPT ![w] = v]
    PROVE  /\ window' \in [Windows -> Window]
           /\ Busy' \subseteq Busy \cup {w}
           /\ v.pc = "idle" => Busy' \subseteq Busy \ {w}
  BY DEF CaptionsTyped, Busy

LEMMA IdleTyped == Idle \in Window /\ Idle.pc = "idle"
  BY DEF Idle, Window

\* The window's own record, by its label.
LEMMA WindowParts ==
    ASSUME CaptionsTyped, NEW w \in Windows
    PROVE  /\ window[w].pc \in {"shown", "apply"} =>
                 /\ window[w].preview \in Preview
                 /\ window[w] = [pc |-> window[w].pc,
                                 preview |-> window[w].preview]
           /\ window[w].pc \in {"save", "flush"} =>
                 /\ window[w].save \in Save
                 /\ window[w] = [pc |-> window[w].pc,
                                 save |-> window[w].save]
  <1>1. window[w] \in Window
    BY DEF CaptionsTyped
  <1> QED BY <1>1 DEF Window

LEMMA ShownTyped ==
    ASSUME NEW p \in Preview, NEW pc \in {"shown", "apply"}
    PROVE  [pc |-> pc, preview |-> p] \in Window
           /\ [pc |-> pc, preview |-> p].pc = pc
  BY DEF Window

LEMMA SaveTyped ==
    ASSUME NEW s \in Save, NEW pc \in {"save", "flush"}
    PROVE  [pc |-> pc, save |-> s] \in Window
           /\ [pc |-> pc, save |-> s].pc = pc
  BY DEF Window

LEMMA RoomKept ==
    ASSUME CaptionsTyped, Room, Busy' \subseteq Busy,
           UNCHANGED <<caption, edits>>
    PROVE  Room'
  <1>1. /\ IsFiniteSet(Busy') /\ Cardinality(Busy') <= Cardinality(Busy)
        /\ Cardinality(Busy) \in Nat /\ Cardinality(Busy') \in Nat
    BY FS_Subset, FS_CardinalityType DEF Room
  <1>2. \A i \in Images : Len(caption[i]) \in Nat
    BY LenProperties DEF CaptionsTyped
  <1>3. ASSUME NEW i \in Images
        PROVE  Len(caption'[i]) + Cardinality(Busy') <= edits' + 1
    BY <1>1, <1>2 DEF Room
  <1> QED BY <1>1, <1>3 DEF Room

LEMMA RoomMade ==
    ASSUME CaptionsTyped, Room, NEW w \in Windows,
           Busy' \subseteq Busy \cup {w},
           Edit, UNCHANGED caption
    PROVE  Room'
  <1>1. /\ IsFiniteSet(Busy \cup {w})
        /\ Cardinality(Busy \cup {w}) =
              IF w \in Busy THEN Cardinality(Busy) ELSE Cardinality(Busy) + 1
    BY FS_AddElement DEF Room
  <1>2. /\ IsFiniteSet(Busy')
        /\ Cardinality(Busy') <= Cardinality(Busy \cup {w})
        /\ Cardinality(Busy) \in Nat /\ Cardinality(Busy') \in Nat
    BY <1>1, FS_Subset, FS_CardinalityType DEF Room
  <1>3. \A i \in Images : Len(caption[i]) \in Nat
    BY LenProperties DEF CaptionsTyped
  <1>4. edits' = edits + 1 /\ edits' \in 0..MaxEdits /\ edits \in Nat
    BY BoundsAssumption DEF Edit, Room
  <1>5. ASSUME NEW i \in Images
        PROVE  Len(caption'[i]) + Cardinality(Busy') <= edits' + 1
    <2>1. Len(caption[i]) + Cardinality(Busy) <= edits + 1
      BY DEF Room
    <2> QED BY <1>1, <1>2, <1>3, <1>4, <2>1
  <1> QED BY <1>2, <1>4, <1>5 DEF Room

LEMMA RoomTaken ==
    ASSUME CaptionsTyped, Room, NEW w \in Busy, Busy' \subseteq Busy \ {w},
           UNCHANGED edits,
           \A i \in Images : /\ Len(caption'[i]) \in Nat
                             /\ Len(caption'[i]) <= Len(caption[i]) + 1
    PROVE  Room'
  <1>1. IsFiniteSet(Busy \ {w})
        /\ Cardinality(Busy \ {w}) = Cardinality(Busy) - 1
    BY FS_RemoveElement DEF Room
  <1>2. /\ IsFiniteSet(Busy') /\ Cardinality(Busy') <= Cardinality(Busy \ {w})
        /\ Cardinality(Busy) \in Nat /\ Cardinality(Busy') \in Nat
    BY <1>1, FS_Subset, FS_CardinalityType DEF Room
  <1>3. \A i \in Images : Len(caption[i]) \in Nat
    BY LenProperties DEF CaptionsTyped
  <1>4. ASSUME NEW i \in Images
        PROVE  Len(caption'[i]) + Cardinality(Busy') <= edits' + 1
    <2>1. Len(caption[i]) + Cardinality(Busy) <= edits + 1
      BY DEF Room
    <2>2. edits' = edits /\ edits \in Nat
      BY BoundsAssumption DEF Room
    <2> QED BY <1>1, <1>2, <1>3, <2>1, <2>2
  <1> QED BY <1>2, <1>4 DEF Room

\* The user has a preview made or decides on a save.
LEMMA EditStep ==
    ASSUME RunsTyped, CaptionsInv, NEW w \in Windows,
           \/ ShowPreview(w)
           \/ \E i \in Images : \/ SaveImageCaption(w, i)
                                \/ RestoreFromSource(w, i)
                                \/ RestorePrevious(w, i)
    PROVE  CaptionsInv'
  <1>1. CaptionsTyped /\ Room /\ RevisionsChained
    BY DEF CaptionsInv
  <1>2. Edit /\ UNCHANGED <<rules, caption>>
    BY DEF ShowPreview, SaveImageCaption, RestoreFromSource, RestorePrevious
  <1>3. ASSUME NEW v \in Window, window' = [window EXCEPT ![w] = v]
        PROVE  CaptionsInv'
    <2>1. window' \in [Windows -> Window] /\ Busy' \subseteq Busy \cup {w}
      BY <1>1, <1>3, WindowOf
    <2>2. Room'
      BY <1>1, <1>2, <2>1, RoomMade
    <2> QED BY <1>1, <1>2, <2>1, <2>2
            DEF CaptionsInv, CaptionsTyped, RevisionsChained
  <1>4. ASSUME NEW i \in Images, NEW tags \in SUBSET Tags,
               NEW kind \in {"manual", "source"},
               NEW source \in {"manual", "restored"},
               Decide(w, i, tags, kind, source)
        PROVE  CaptionsInv'
    <2> DEFINE s == [image |-> i, tags |-> tags, kind |-> kind,
                     edit_source |-> source, revision |-> 0]
    <2>1. s \in Save
      BY BoundsAssumption DEF Save, Count
    <2>2. window' = [window EXCEPT ![w] = [pc |-> "save", save |-> s]]
      BY <1>4 DEF Decide
    <2> HIDE DEF s
    <2> QED BY <1>3, <2>1, <2>2, SaveTyped
  <1>5. CASE ShowPreview(w)
    <2>1. PICK r \in Runs, drop \in Drops \cup {rules}, policy \in Policies :
              window' = [window EXCEPT ![w] =
                            [pc |-> "shown",
                             preview |-> BuildPreview(r, drop, policy)]]
      BY <1>5 DEF ShowPreview
    <2>2. drop \in SUBSET Tags /\ policy \in Policy
      BY <1>1, WordsAssumption DEF CaptionsTyped
    <2>3. BuildPreview(r, drop, policy) \in Preview
      BY <1>1, <2>2, PreviewTyped
    <2> QED BY <1>3, <2>1, <2>3, ShownTyped
  <1>6. ASSUME NEW i \in Images, SaveImageCaption(w, i) PROVE CaptionsInv'
    BY <1>4, <1>6, WordsAssumption DEF SaveImageCaption
  <1>7. ASSUME NEW i \in Images, RestoreFromSource(w, i) PROVE CaptionsInv'
    <2>1. PICK r \in Runs :
              Decide(w, i, result[r][i].tags, "source", "restored")
      BY <1>7 DEF RestoreFromSource
    <2>2. result[r][i].tags \in SUBSET Tags
      BY DEF RunsTyped, Result
    <2> QED BY <1>4, <2>1, <2>2
  <1>8. ASSUME NEW i \in Images, RestorePrevious(w, i) PROVE CaptionsInv'
    <2>1. Current(i).before \in SUBSET Tags
      BY <1>1, CurrentTyped DEF Revision
    <2> QED BY <1>4, <1>8, <2>1 DEF RestorePrevious
  <1> QED BY <1>5, <1>6, <1>7, <1>8

\* The token is compared, or the current revision is selected.
LEMMA ReadStep ==
    ASSUME CaptionsInv, NEW w \in Windows, CheckToken(w) \/ SelectCurrent(w)
    PROVE  CaptionsInv'
  <1>1. CaptionsTyped /\ Room /\ RevisionsChained /\ w \in Busy
    BY DEF CaptionsInv, Busy, CheckToken, SelectCurrent
  <1>2. UNCHANGED <<rules, caption, edits>>
    BY DEF CheckToken, SelectCurrent
  <1>3. ASSUME NEW v \in Window, window' = [window EXCEPT ![w] = v]
        PROVE  CaptionsInv'
    <2>1. window' \in [Windows -> Window] /\ Busy' \subseteq Busy
      BY <1>1, <1>3, WindowOf
    <2>2. Room'
      BY <1>1, <1>2, <2>1, RoomKept
    <2> QED BY <1>1, <1>2, <2>1, <2>2
            DEF CaptionsInv, CaptionsTyped, RevisionsChained
  <1>4. CASE CheckToken(w)
    <2> DEFINE p == window[w].preview
               v == [pc |-> "apply", preview |-> p]
    <2>1. p \in Preview /\ window[w] = [pc |-> "shown", preview |-> p]
      BY <1>1, <1>4, WindowParts DEF CheckToken
    <2>2. window' = [window EXCEPT ![w] = v]
          \/ window' = [window EXCEPT ![w] = Idle]
      BY <1>1, <1>4, <2>1 DEF CheckToken, CaptionsTyped
    <2>3. v \in Window
      BY <2>1, ShownTyped
    <2> HIDE DEF v
    <2> QED BY <1>3, <2>2, <2>3, IdleTyped
  <1>5. CASE SelectCurrent(w)
    <2> DEFINE s == window[w].save
               n == Len(caption[s.image])
               t == [s EXCEPT !.revision = n]
               v == [pc |-> "flush", save |-> t]
    <2>1. s \in Save /\ window[w] = [pc |-> "save", save |-> s]
      BY <1>1, <1>5, WindowParts DEF SelectCurrent
    <2>2. n \in Count
      BY <1>1, <2>1, CountTyped DEF Save
    <2>3. t \in Save
      BY <2>1, <2>2 DEF Save
    <2>4. window' = [window EXCEPT ![w] = v]
      BY <1>5 DEF SelectCurrent
    <2>5. v \in Window
      BY <2>3, SaveTyped
    <2> HIDE DEF v
    <2> QED BY <1>3, <2>4, <2>5
  <1> QED BY <1>4, <1>5

\* A window writes captions and is done.
LEMMA Done ==
    ASSUME CaptionsInv, NEW w \in Busy,
           window' = [window EXCEPT ![w] = Idle], UNCHANGED edits,
           rules' \subseteq Tags, caption' \in [Images -> Seq(Revision)],
           \A i \in Images : /\ Len(caption'[i]) <= Len(caption[i]) + 1
                             /\ Chained(caption'[i])
    PROVE  CaptionsInv'
  <1>1. CaptionsTyped /\ Room /\ w \in Windows
    BY DEF CaptionsInv, Busy
  <1>2. window' \in [Windows -> Window] /\ Busy' \subseteq Busy \ {w}
    BY <1>1, IdleTyped, WindowOf
  <1>3. \A i \in Images : Len(caption'[i]) \in Nat
    BY LenProperties
  <1>4. Room'
    BY <1>1, <1>2, <1>3, RoomTaken
  <1> QED BY <1>2, <1>4
  DEF CaptionsInv, CaptionsTyped, RevisionsChained, Chained

\* ... or is done without having written any.
LEMMA DoneWithout ==
    ASSUME CaptionsInv, NEW w \in Busy,
           window' = [window EXCEPT ![w] = Idle],
           UNCHANGED <<rules, caption, edits>>
    PROVE  CaptionsInv'
  <1>1. CaptionsTyped /\ Room /\ w \in Windows
    BY DEF CaptionsInv, Busy
  <1>2. window' \in [Windows -> Window] /\ Busy' \subseteq Busy
    BY <1>1, IdleTyped, WindowOf
  <1>3. Room'
    BY <1>1, <1>2, RoomKept
  <1> QED BY <1>2, <1>3 DEF CaptionsInv, CaptionsTyped, RevisionsChained

LEMMA ApplyStep ==
    ASSUME CaptionsInv, NEW w \in Windows, Apply(w) PROVE CaptionsInv'
  <1>1. CaptionsTyped /\ RevisionsChained /\ w \in Busy
    BY DEF CaptionsInv, Busy, Apply
  <1>2. window' = [window EXCEPT ![w] = Idle] /\ UNCHANGED edits
    BY DEF Apply
  <1> DEFINE p == window[w].preview
             written == {i \in DOMAIN p.changes : ~p.changes[i].skip}
  <1>3. p \in Preview
    BY <1>1, WindowParts DEF Apply
  <1>4. p.drop \in SUBSET Tags
        /\ p.changes \in UNION {[I -> Change] : I \in SUBSET Images}
    BY <1>3 DEF Preview
  <1>5. PICK I \in SUBSET Images : p.changes \in [I -> Change]
    BY <1>4
  <1>6. \A i \in written : i \in Images /\ p.changes[i].after \in SUBSET Tags
    BY <1>5 DEF Change
  <1>7. CASE UNCHANGED <<rules, caption>>
    BY <1>1, <1>2, <1>7, DoneWithout
  <1>8. CASE /\ UpsertRules(p.drop)
             /\ caption' = [i \in Images |->
                    IF i \in written
                    THEN Saved(i, p.changes[i].after, "bulk", "bulk_filter")
                    ELSE caption[i]]
    <2> DEFINE text(i) == IF i \in written
                          THEN Saved(i, p.changes[i].after, "bulk",
                                     "bulk_filter")
                          ELSE caption[i]
    <2>1. ASSUME NEW i \in Images
          PROVE  /\ text(i) \in Seq(Revision)
                 /\ Len(text(i)) <= Len(caption[i]) + 1
                 /\ Chained(text(i))
      <3>1. CASE i \in written
        BY <1>1, <1>6, <3>1, SavedFits DEF Kind
      <3>2. CASE i \notin written
        <4>1. caption[i] \in Seq(Revision) /\ Len(caption[i]) \in Nat
              /\ Chained(caption[i])
          BY <1>1, LenProperties DEF CaptionsTyped, RevisionsChained, Chained
        <4> QED BY <3>2, <4>1
      <3> QED BY <3>1, <3>2
    <2>2. caption' = [i \in Images |-> text(i)]
      BY <1>8
    <2> HIDE DEF text
    <2>3. rules' \subseteq Tags
      BY <1>4, <1>8 DEF UpsertRules
    <2> QED BY <1>1, <1>2, <2>1, <2>2, <2>3, Done
  <1> QED BY <1>7, <1>8 DEF Apply

LEMMA FlushStep ==
    ASSUME CaptionsInv, NEW w \in Windows, Flush(w) PROVE CaptionsInv'
  <1>1. CaptionsTyped /\ RevisionsChained /\ w \in Busy
    BY DEF CaptionsInv, Busy, Flush
  <1>2. window' = [window EXCEPT ![w] = Idle] /\ UNCHANGED <<rules, edits>>
    BY DEF Flush
  <1> DEFINE s == window[w].save
             i == s.image
             seen == SubSeq(caption[i], 1, s.revision)
             old == IF seen = <<>> THEN NoTags ELSE seen[Len(seen)]
             next == [tags |-> s.tags, kind |-> s.kind, before |-> old.tags,
                      edit_source |-> s.edit_source]
             longer == Append(caption[i], next)
  <1>3. s \in Save
    BY <1>1, WindowParts DEF Flush
  <1>4. /\ i \in Images /\ s.tags \in SUBSET Tags
        /\ s.kind \in {"manual", "source"}
        /\ s.edit_source \in {"manual", "restored"}
    BY <1>3 DEF Save
  <1>5. \A j \in Images : /\ caption[j] \in Seq(Revision)
                          /\ Len(caption[j]) \in Nat /\ Chained(caption[j])
    BY <1>1, LenProperties DEF CaptionsTyped, RevisionsChained, Chained
  <1>6. CASE UNCHANGED caption
    BY <1>1, <1>2, <1>6, DoneWithout
  <1>7. CASE UniqueCurrent(s) /\ caption' = [caption EXCEPT ![i] = longer]
    <2>1. seen = caption[i]
      BY <1>4, <1>5, <1>7, SubSeqFull DEF UniqueCurrent
    <2>2. old = Current(i)
      BY <2>1, Zenon DEF Current
    <2>3. Current(i).tags = IF caption[i] = <<>> THEN {}
                            ELSE caption[i][Len(caption[i])].tags
      BY <1>1, <1>4, CurrentTags
    <2>4. next \in Revision
      BY <1>1, <1>4, <2>2, CurrentTyped DEF Revision, Kind
    <2>5. next.before = Current(i).tags
      BY <2>2
    <2> HIDE DEF next, longer
    <2>6. longer \in Seq(Revision) /\ Len(longer) = Len(caption[i]) + 1
          /\ Chained(longer)
      BY <1>4, <1>5, <2>3, <2>4, <2>5, ChainGrows DEF longer
    <2>7. /\ caption' \in [Images -> Seq(Revision)]
          /\ caption'[i] = longer
          /\ \A j \in Images \ {i} : caption'[j] = caption[j]
      BY <1>1, <1>4, <1>7, <2>6 DEF CaptionsTyped
    <2>8. \A j \in Images : /\ Len(caption'[j]) <= Len(caption[j]) + 1
                            /\ Chained(caption'[j])
      BY <1>5, <2>6, <2>7
    <2> QED BY <1>1, <1>2, <2>7, <2>8, Done DEF CaptionsTyped
  <1> QED BY <1>1, <1>6, <1>7 DEF Flush, CaptionsTyped

LEMMA CaptionsStep == ASSUME RunsTyped, CaptionsInv, Next PROVE CaptionsInv'
  <1>1. ASSUME NEW w \in Windows,
               \/ ShowPreview(w) \/ CheckToken(w) \/ Apply(w)
               \/ SelectCurrent(w) \/ Flush(w)
               \/ \E i \in Images : \/ SaveImageCaption(w, i)
                                    \/ RestoreFromSource(w, i)
                                    \/ RestorePrevious(w, i)
        PROVE  CaptionsInv'
    BY <1>1, EditStep, ReadStep, ApplyStep, FlushStep
  <1>2. CASE Crash
    <2>1. UNCHANGED <<rules, caption, edits>>
          /\ window' = [w \in Windows |-> Idle]
      BY <1>2 DEF Crash
    <2>2. window' \in [Windows -> Window] /\ Busy' \subseteq Busy
      BY <2>1, IdleTyped DEF Busy
    <2>3. Room'
      BY <2>1, <2>2, RoomKept DEF CaptionsInv
    <2> QED BY <2>1, <2>2, <2>3
            DEF CaptionsInv, CaptionsTyped, RevisionsChained
  <1>3. CASE UNCHANGED captionVars
    <2>1. UNCHANGED <<rules, caption, window, edits>>
      BY <1>3 DEF captionVars
    <2> QED BY <2>1 DEF CaptionsInv, CaptionsTyped, Room, Busy,
                        RevisionsChained
  <1> QED
    BY <1>1, <1>2, <1>3
       DEF Next, RecoverStaleRuns, Ask, Insert, Cancel, Execute, Begin, LoadModel,
           Look, Tag, Finish, Handle, Select

LEMMA CaptionsInit == ASSUME Init PROVE CaptionsInv
  <1>1. PICK tags \in Texts :
            caption = [i \in Images |-> IF i \in Written
                                        THEN <<ByHand(tags)>> ELSE <<>>]
    BY DEF Init
  <1>2. ByHand(tags) \in Revision /\ ByHand(tags).before = {}
    BY WordsAssumption DEF ByHand, Revision, Kind
  <1> DEFINE first == <<ByHand(tags)>>
             none == <<>>
  <1>3. /\ first \in Seq(Revision) /\ Len(first) = 1
        /\ first[1] = ByHand(tags) /\ DOMAIN first = {1}
    BY <1>2
  <1>4. none \in Seq(Revision) /\ Len(none) = 0 /\ DOMAIN none = {}
    BY EmptySeq
  <1>5. \A i \in Images : caption[i] = first \/ caption[i] = none
    BY <1>1
  <1>6. caption \in [Images -> Seq(Revision)]
    <2>1. caption = [i \in Images |-> IF i \in Written THEN first ELSE none]
      BY <1>1
    <2> HIDE DEF first, none
    <2> QED BY <1>3, <1>4, <2>1
  <1> HIDE DEF first, none
  <1>7. RevisionsChained
    BY <1>2, <1>3, <1>4, <1>5 DEF RevisionsChained
  <1>8. window \in [Windows -> Window] /\ Busy = {}
    BY IdleTyped DEF Init, Busy
  <1>9. Room
    <2>1. IsFiniteSet(Busy) /\ Cardinality(Busy) = 0
      BY <1>8, FS_EmptySet
    <2>2. edits = 0 /\ edits \in 0..MaxEdits
      BY BoundsAssumption DEF Init
    <2>3. \A i \in Images : Len(caption[i]) = 0 \/ Len(caption[i]) = 1
      BY <1>3, <1>4, <1>5
    <2>4. ASSUME NEW i \in Images
          PROVE  Len(caption[i]) + Cardinality(Busy) <= edits + 1
      <3>1. Cardinality(Busy) = 0 /\ edits = 0
        BY <2>1, <2>2
      <3>2. CASE Len(caption[i]) = 0
        BY <3>1, <3>2
      <3>3. CASE Len(caption[i]) = 1
        BY <3>1, <3>3
      <3> QED BY <2>3, <3>2, <3>3
    <2> QED BY <2>1, <2>2, <2>4 DEF Room
  <1>10. rules \subseteq Tags
    BY DEF Init
  <1> QED BY <1>6, <1>7, <1>8, <1>9, <1>10 DEF CaptionsInv, CaptionsTyped

-----------------------------------------------------------------------------
(* the theorems *)

LEMMA CountsStep == ASSUME CountsTyped, Next PROVE CountsTyped'
  <1>1. /\ UNCHANGED faults \/ Fault
        /\ \/ UNCHANGED selects
           \/ selects < MaxSelects /\ selects' = selects + 1
    BY DEF Next, RecoverStaleRuns, Ask, Insert, Cancel, Execute, Begin, LoadModel,
           Look, Tag, Finish, Handle, WriteRaises, ShowPreview, CheckToken, Apply, SelectCurrent, Flush,
           SaveImageCaption, RestoreFromSource, RestorePrevious, Select, Crash
  <1> QED BY <1>1, BoundsAssumption DEF CountsTyped, Fault

LEMMA Always == Spec => []IInv
  <1>1. Init => IInv
    BY RunsInit, CaptionsInit, BoundsAssumption DEF IInv, CountsTyped, Init
  <1>2. IInv /\ [Next]_vars => IInv'
    <2>1. ASSUME IInv, Next PROVE IInv'
      BY <2>1, RunsStep, CaptionsStep, CountsStep DEF IInv, RunsInv
    <2>2. ASSUME IInv, UNCHANGED vars PROVE IInv'
      <3>1. RunsInv' /\ CallsFit'
        BY <2>2 DEF IInv, RunsInv, RunsTyped, RunFits, EndTold, SomeFailed,
                    Todo, CallsFit, CallFits, vars
      <3>2. CaptionsInv'
        BY <2>2 DEF IInv, CaptionsInv, CaptionsTyped, Room, Busy,
                    RevisionsChained, vars
      <3> QED BY <2>2, <3>1, <3>2 DEF IInv, CountsTyped, vars
    <2> QED BY <2>1, <2>2
  <1> QED BY <1>1, <1>2, PTL DEF Spec

\* The state of runs, captions and windows always has its types: no caption
\* gets more revisions than there were edits.
THEOREM TypeCorrect == Spec => []TypeOK
  <1>1. IInv => TypeOK
    BY DEF IInv, RunsInv, RunsTyped, CallsFit, CaptionsInv, CaptionsTyped, Room,
           CountsTyped, TypeOK
  <1> QED BY <1>1, Always, PTL

\* A COMPLETED run has a completed result for each of its images, and a
\* PARTIALLY_FAILED one a result for each and a failed one among them, for any
\* number of runs and threads: other starts, cancellations, and errors of any
\* write come between without making either false.
\* (_execute, _process_images and start_run)
THEOREM EndedRunsAreWhole == Spec => []EndIsWhole
  <1>1. IInv => EndIsWhole
    <2> SUFFICES ASSUME IInv, NEW r \in Runs, run[r].status \in Usable
                 PROVE  LET statuses == {result[r][i].status :
                                            i \in run[r].target}
                        IN  /\ "none" \notin statuses
                            /\ run[r].status = "partially_failed"
                               <=> "failed" \in statuses
      BY DEF EndIsWhole
    <2>1. RunFits(r) /\ run[r].target \subseteq Images
      BY DEF IInv, RunsInv, RunsTyped, Run
    <2>2. \A i \in run[r].target : result[r][i].status # "none"
      BY <2>1 DEF RunFits, Todo
    <2>3. run[r].status = "partially_failed" <=> SomeFailed(r)
      BY <2>1 DEF RunFits, EndTold
    <2> QED BY <2>2, <2>3 DEF SomeFailed
  <1> QED BY <1>1, Always, PTL

\* The status and the results of a run are written by its own thread; no start
\* makes a run STALE that has not ended, for any number of starts, runs and
\* threads.  (start_run, recover_stale_runs, _execute and _finish)
THEOREM ThreadsEndRuns == Spec => OnlyThreadEnds
  <1>1. IInv /\ [Next]_vars => [\A r \in Runs : RunStepOf(r)]_vars
    BY RunChanges DEF IInv
  <1> QED BY <1>1, Always, PTL DEF Spec, OnlyThreadEnds, RunStepOf

\* Each revision of a caption has the text of the one before it in its
\* history, for any number of windows that save at the same time.
\* (save_caption and the unique index on the current revision)
THEOREM HistoriesAreChains == Spec => []RevisionsChained
  <1>1. IInv => RevisionsChained
    BY DEF IInv, CaptionsInv
  <1> QED BY <1>1, Always, PTL

=============================================================================
