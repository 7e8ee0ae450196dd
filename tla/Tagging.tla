------------------------------- MODULE Tagging -------------------------------
(***************************************************************************)
(* TaggingService and CaptionEditingService.  A run tags the accepted      *)
(* images of a project in a thread; what the tagger found is kept per run  *)
(* and image and never becomes a caption by itself.  The user has a        *)
(* preview made from an ended run, applies it to all images at once, and   *)
(* edits single captions, in any number of windows.  Every change of a     *)
(* caption is a new revision.                                              *)
(*                                                                         *)
(* A caption is the set of its tags; order, confidences and categories are *)
(* left out.  One project, one model and one set of inference settings.    *)
(***************************************************************************)
EXTENDS Naturals, Sequences, FiniteSets, TLC

CONSTANTS
    Images,       \* images of the project, in the order of their ids
    MaxRuns,      \* runs that are started (a bound)
    MaxWorkers,   \* threads for runs: tagger_max_workers
    Tags,
    Triggers,     \* the project's trigger words, which are tags too
    Predictions,  \* what the tagger may find in an image
    Texts,        \* what the user may write into a caption
    Written,      \* images that have a caption written by hand at first
    Drops,        \* tags that the user may choose to remove
    Policies,     \* policies for edited captions that the user may choose
    Windows,      \* windows of the user interface
    MaxEdits,     \* edits and previews (a bound)
    Changing,     \* images whose selection the user changes (a bound)
    MaxSelects,   \* changes of the accepted images (a bound)
    MaxFaults     \* crashes, failures of the model and the database (a bound)

Runs == 1..MaxRuns
Policy == {"keep_manual", "rebuild", "exclude_manual"}

ASSUME ImagesAssumption == Images \subseteq Nat /\ Written \subseteq Images
ASSUME WordsAssumption ==
    /\ Triggers \subseteq Tags
    /\ Predictions \subseteq SUBSET Tags /\ Texts \subseteq SUBSET Tags
    /\ Drops \subseteq SUBSET Tags /\ Policies \subseteq Policy
ASSUME BoundsAssumption ==
    /\ MaxRuns \in Nat /\ MaxWorkers \in Nat \ {0} /\ MaxEdits \in Nat
    /\ MaxSelects \in Nat /\ MaxFaults \in Nat

VARIABLES
    accepted,  \* the images that are selected
    run,       \* run[r]: the row in tagger_runs
    result,    \* result[r][i]: the row in image_tagging_results
    task,      \* task[r]: the thread of the run r
    call,      \* call[w]: the call of start_run that w has made
    rules,     \* project_tag_rules: the tags to remove
    caption,   \* caption[i]: the revisions of the caption of i
    window,    \* window[w]: what a window of the user interface is doing
    edits, selects, faults

vars == <<accepted, run, result, task, call, rules, caption, window, edits,
          selects, faults>>
runVars == <<run, result, task, call>>
captionVars == <<rules, caption, window, edits>>

Active == {"pending", "running"}
Usable == {"completed", "partially_failed"}
RunStatus == {"none", "failed", "canceled", "stale"} \cup Active \cup Usable
Run == [status : RunStatus, cancel : BOOLEAN, target : SUBSET Images]
NoRun == [status |-> "none", cancel |-> FALSE, target |-> {}]

Result == [status : {"none", "failed", "completed"}, tags : SUBSET Tags]
NoResult == [status |-> "none", tags |-> {}]

\* "end" is the status that the thread will write at "finish"; at "handler" an
\* exception has reached _execute.
Task == [pc : {"none", "queued", "load", "look", "tag", "finish", "handler"},
         end : {"completed", "partially_failed", "failed"}]
NoTask == [pc |-> "none", end |-> "completed"]

\* "loaded" are the rows that the session has set to STALE and not flushed.
Call == [pc : {"idle", "ask", "insert"}, loaded : SUBSET Runs,
         target : SUBSET Images]
NoCall == [pc |-> "idle", loaded |-> {}, target |-> {}]

\* The tags of a revision were written by hand, taken from the tagger's or
\* made by an application of a preview; "before" is the text in its history.
Kind == {"manual", "source", "bulk"}
Revision == [tags : SUBSET Tags, kind : Kind, before : SUBSET Tags,
             edit_source : {"manual", "restored", "bulk_filter"}]

\* Numbers of revisions: each edit makes at most one.
Count == 0..(MaxEdits + 1)

Change == [before : SUBSET Tags, after : SUBSET Tags, skip : BOOLEAN]
\* Everything the token is made of.
Preview == [run : Runs, drop : SUBSET Tags, policy : Policy,
            results : UNION {[I -> SUBSET Tags] : I \in SUBSET Images},
            revisions : UNION {[I -> Count] : I \in SUBSET Images},
            changes : UNION {[I -> Change] : I \in SUBSET Images}]

ByHand(tags) == [tags |-> tags, kind |-> "manual", before |-> {},
                 edit_source |-> "manual"]

\* The save that a window has decided on, and the revision it has selected.
Save == [image : Images, tags : SUBSET Tags, kind : {"manual", "source"},
         edit_source : {"manual", "restored"}, revision : Count]
Window == [pc : {"idle"}] \cup [pc : {"shown", "apply"}, preview : Preview]
          \cup [pc : {"save", "flush"}, save : Save]
Idle == [pc |-> "idle"]

TypeOK ==
    /\ accepted \subseteq Images
    /\ run \in [Runs -> Run]
    /\ result \in [Runs -> [Images -> Result]]
    /\ task \in [Runs -> Task]
    /\ call \in [Windows -> Call]
    /\ rules \subseteq Tags
    /\ caption \in [Images -> Seq(Revision)]
    /\ window \in [Windows -> Window]
    /\ edits \in 0..MaxEdits /\ selects \in 0..MaxSelects
    /\ faults \in 0..MaxFaults

Init ==
    /\ accepted = Images
    /\ run = [r \in Runs |-> NoRun]
    /\ result = [r \in Runs |-> [i \in Images |-> NoResult]]
    /\ task = [r \in Runs |-> NoTask]
    /\ call = [w \in Windows |-> NoCall]
    /\ rules = {}
    /\ \E tags \in Texts :
          caption = [i \in Images |-> IF i \in Written
                                     THEN <<ByHand(tags)>> ELSE <<>>]
    /\ window = [w \in Windows |-> Idle]
    /\ edits = 0 /\ selects = 0 /\ faults = 0

Fault == faults < MaxFaults /\ faults' = faults + 1

-----------------------------------------------------------------------------
(* Runs. *)

HasResult(i, status) == \E r \in Runs : result[r][i].status = status

\* A failed result counts although a later run may have tagged the image.
Selected(mode) ==
    CASE mode = "all_accepted" -> accepted
      [] mode = "untagged_only" ->
            {i \in accepted : ~HasResult(i, "completed")}
      [] mode = "failed_only" -> {i \in accepted : HasResult(i, "failed")}

Goto(r, pc) == task' = [task EXCEPT ![r].pc = pc]
EndAs(r, status) ==
    task' = [task EXCEPT ![r] = [pc |-> "finish", end |-> status]]
Caught(r) == task' = [task EXCEPT ![r] = [pc |-> "handler", end |-> "failed"]]
Leave(r) == task' = [task EXCEPT ![r] = NoTask]

\* A window makes one call at a time.
Free(w) == window[w] = Idle /\ call[w] = NoCall

\* start_run sets the active runs to STALE, whether a thread is at work or not.
\* The session does not flush by itself.
RecoverStaleRuns(w) ==
    /\ Free(w)
    /\ \E r \in Runs : run[r] = NoRun
    /\ call' = [call EXCEPT ![w] =
          [NoCall EXCEPT !.pc = "ask",
                         !.loaded = {r \in Runs : run[r].status \in Active}]]
    /\ UNCHANGED <<accepted, run, result, task, captionVars, selects, faults>>

\* mutant: the session flushes before it selects
ActiveFlushed(w) ==
    {r \in Runs \ call[w].loaded : run[r].status \in Active}

\* The rows say what was committed.
ActiveRuns(w) == {r \in Runs : run[r].status \in Active}

\* With an active run the start is refused, and STALE is rolled back.
Ask(w, mode) ==
    /\ call[w].pc = "ask"
    /\ call' = [call EXCEPT ![w] =
          IF ActiveRuns(w) # {} THEN NoCall
          ELSE [@ EXCEPT !.pc = "insert", !.target = Selected(mode)]]
    /\ UNCHANGED <<accepted, run, result, task, captionVars, selects, faults>>

Recovered(loaded) ==
    [r \in Runs |-> IF r \in loaded THEN [run[r] EXCEPT !.status = "stale"]
                                    ELSE run[r]]

\* One transaction: STALE, over runs that have ended since they were loaded,
\* and the new row.  Where the commit raises although it took effect the run
\* gets no thread.
Insert(w) ==
    /\ call[w].pc = "insert"
    /\ \E r \in Runs :
          /\ run[r] = NoRun /\ \A q \in Runs : q < r => run[q] # NoRun
          /\ run' = [Recovered(call[w].loaded) EXCEPT ![r] =
                        [status |-> "pending", cancel |-> FALSE,
                         target |-> call[w].target]]
          /\ \/ Goto(r, "queued") /\ UNCHANGED faults
             \/ Fault /\ UNCHANGED task
    /\ call' = [call EXCEPT ![w] = NoCall]
    /\ UNCHANGED <<accepted, result, captionVars, selects>>

\* The flag of a run that has ended is never read; that it can be set is left out.
Cancel(r) ==
    /\ run[r].status \in Active /\ ~run[r].cancel
    /\ run' = [run EXCEPT ![r].cancel = TRUE]
    /\ UNCHANGED <<accepted, result, task, call, captionVars, selects, faults>>

Working == {r \in Runs : task[r].pc \notin {"none", "queued"}}
\* An exception where a status is written: before the commit took effect or after.
WriteRaises(r, status) ==
    /\ Fault
    /\ run' \in {run, [run EXCEPT ![r].status = status]}

\* The environment is validated; RUNNING is written whatever the status is.
Begin(r) ==
    /\ task[r].pc = "queued" /\ Cardinality(Working) < MaxWorkers
    /\ \/ /\ run' = [run EXCEPT ![r].status = "running"]
          /\ Goto(r, "load") /\ UNCHANGED faults
       \/ Fault /\ EndAs(r, "failed") /\ UNCHANGED run
       \/ WriteRaises(r, "running") /\ Caught(r)
    /\ UNCHANGED <<accepted, result, call, captionVars, selects>>

LoadModel(r) ==
    /\ task[r].pc = "load"
    /\ \/ Goto(r, "look") /\ UNCHANGED faults
       \/ Caught(r) /\ Fault
    /\ UNCHANGED <<accepted, run, result, call, captionVars, selects>>

\* The images in the order of the selection.
Todo(r) == {i \in run[r].target : result[r][i] = NoResult}
FirstTodo(r) == CHOOSE i \in Todo(r) : \A j \in Todo(r) : i <= j

\* mutant: a canceled run ends as if its images had been done
LookAndEnd(r) ==
    /\ task[r].pc = "look"
    /\ IF Todo(r) = {} \/ run[r].cancel
       THEN EndAs(r, task[r].end) ELSE Goto(r, "tag")
    /\ UNCHANGED <<accepted, run, result, call, captionVars, selects, faults>>

Look(r) ==
    /\ task[r].pc = "look"
    /\ \/ /\ Todo(r) # {} /\ run[r].cancel
          /\ \/ /\ run' = [run EXCEPT ![r].status = "canceled"]
                /\ Leave(r) /\ UNCHANGED faults
             \/ WriteRaises(r, "canceled") /\ Caught(r)
       \/ /\ Todo(r) # {} /\ ~run[r].cancel
          /\ \/ Goto(r, "tag") /\ UNCHANGED faults
             \/ Caught(r) /\ Fault
          /\ UNCHANGED run
       \/ Todo(r) = {} /\ EndAs(r, task[r].end) /\ UNCHANGED <<run, faults>>
    /\ UNCHANGED <<accepted, result, call, captionVars, selects>>

Record(r, status, tags) ==
    result' = [result EXCEPT ![r][FirstTodo(r)] =
                  [status |-> status, tags |-> tags]]

\* An image that cannot be tagged, or whose tags cannot be stored, gets a
\* failed result and the next one is taken; where that cannot be stored
\* either, or a result is there after all, the run fails.
Tag(r) ==
    /\ task[r].pc = "tag"
    /\ \/ /\ \E tags \in Predictions : Record(r, "completed", tags)
          /\ \/ Goto(r, "look") /\ UNCHANGED faults
             \/ Caught(r) /\ Fault
       \/ /\ Fault
          /\ Record(r, "failed", {})
          /\ \/ Caught(r)
             \/ task' = [task EXCEPT ![r] = [pc |-> "look",
                                             end |-> "partially_failed"]]
       \/ Fault /\ Caught(r) /\ UNCHANGED result
    /\ UNCHANGED <<accepted, run, call, captionVars, selects>>

\* The last write is inside the try of _execute as well: where it raises the
\* handler writes FAILED, also over an end that was committed.
Finish(r) ==
    /\ task[r].pc = "finish"
    /\ \/ /\ run' = [run EXCEPT ![r].status = task[r].end]
          /\ Leave(r) /\ UNCHANGED faults
       \/ WriteRaises(r, task[r].end) /\ Caught(r)
    /\ UNCHANGED <<accepted, result, call, captionVars, selects>>

\* Where this write raises too, the run keeps the status it has.
Handle(r) ==
    /\ task[r].pc = "handler"
    /\ \/ run' = [run EXCEPT ![r].status = "failed"] /\ UNCHANGED faults
       \/ WriteRaises(r, "failed")
    /\ Leave(r)
    /\ UNCHANGED <<accepted, result, call, captionVars, selects>>

-----------------------------------------------------------------------------
(* Captions. *)

NoTags == [tags |-> {}, kind |-> "bulk", before |-> {},
           edit_source |-> "bulk_filter"]
Current(i) == IF caption[i] = <<>> THEN NoTags
                                   ELSE caption[i][Len(caption[i])]

\* Same text and same values of the tags: no revision is made.
Same(c, tags, kind) == c.tags = tags /\ (tags = {} \/ c.kind = kind)

Saved(i, tags, kind, source) ==
    IF caption[i] # <<>> /\ Same(Current(i), tags, kind) THEN caption[i]
    ELSE Append(caption[i], [tags |-> tags, kind |-> kind,
                             before |-> Current(i).tags,
                             edit_source |-> source])

IsManual(i) ==
    /\ caption[i] # <<>>
    /\ \/ Current(i).edit_source = "manual"
       \/ Current(i).kind = "manual" /\ Current(i).tags # {}

\* Accepted images with tags found by the run.
Used(r) == {i \in accepted : /\ result[r][i].status = "completed"
                             /\ result[r][i].tags # {}}

WithTriggers(tags) == tags \cup Triggers

After(r, drop, policy, i) ==
    CASE IsManual(i) /\ policy = "exclude_manual" -> Current(i).tags
      [] IsManual(i) /\ policy = "keep_manual" ->
            WithTriggers(Current(i).tags \ drop)
      [] OTHER -> WithTriggers(result[r][i].tags \ drop)

\* A change with a warning that changes nothing is left out.
ChangeOf(r, drop, policy, i) ==
    LET after == After(r, drop, policy, i)
        before == Current(i).tags
    IN  [before |-> before, after |-> after,
         skip |-> /\ before = after
                  /\ \/ IsManual(i) /\ policy = "exclude_manual"
                     \/ after = {}]

BuildPreview(r, drop, policy) ==
    [run |-> r, drop |-> drop, policy |-> policy,
     results |-> [i \in Used(r) |-> result[r][i].tags],
     revisions |-> [i \in accepted |-> Len(caption[i])],
     changes |-> [i \in Used(r) |-> ChangeOf(r, drop, policy, i)]]

Edit == edits < MaxEdits /\ edits' = edits + 1

\* With no choice of tags the project's rules are taken.
ShowPreview(w) ==
    /\ Free(w) /\ Edit
    /\ \E r \in Runs, drop \in Drops \cup {rules}, policy \in Policies :
          /\ run[r].status \in Usable
          /\ window' = [window EXCEPT ![w] =
                           [pc |-> "shown",
                            preview |-> BuildPreview(r, drop, policy)]]
    /\ UNCHANGED <<accepted, runVars, rules, caption, selects, faults>>

StillCurrent(p) ==
    run[p.run].status \in Usable /\ BuildPreview(p.run, p.drop, p.policy) = p

CheckToken(w) ==
    /\ window[w].pc = "shown"
    /\ \/ /\ StillCurrent(window[w].preview)
          /\ window' = [window EXCEPT ![w].pc = "apply"]
       \/ /\ ~StillCurrent(window[w].preview)
          /\ window' = [window EXCEPT ![w] = Idle]
    /\ UNCHANGED <<accepted, runVars, rules, caption, edits, selects, faults>>

\* A choice names every tag.
UpsertRules(drop) == rules' = drop

\* One transaction for the rules and all captions, which may fail; it begins
\* with its first write, so that a save may be committed after the token was
\* compared.
Apply(w) ==
    /\ window[w].pc = "apply"
    /\ LET p == window[w].preview
           written == {i \in DOMAIN p.changes : ~p.changes[i].skip}
       IN  \/ /\ UpsertRules(p.drop)
              /\ caption' = [i \in Images |->
                     IF i \in written
                     THEN Saved(i, p.changes[i].after, "bulk", "bulk_filter")
                     ELSE caption[i]]
              /\ UNCHANGED faults
           \/ Fault /\ UNCHANGED <<rules, caption>>
    /\ window' = [window EXCEPT ![w] = Idle]
    /\ UNCHANGED <<accepted, runVars, edits, selects>>

Decide(w, i, tags, kind, source) ==
    window' = [window EXCEPT ![w] =
        [pc |-> "save", save |-> [image |-> i, tags |-> tags, kind |-> kind,
                                  edit_source |-> source, revision |-> 0]]]

SaveImageCaption(w, i) ==
    /\ Free(w) /\ Edit
    /\ \E tags \in Texts : Decide(w, i, tags, "manual", "manual")
    /\ UNCHANGED <<accepted, runVars, rules, caption, selects, faults>>

\* The result of the newest run, usable or not, that has one.
RestoreFromSource(w, i) ==
    /\ Free(w) /\ Edit
    /\ \E r \in Runs :
          /\ result[r][i].status = "completed"
          /\ \A q \in Runs : result[q][i].status = "completed" => q <= r
          /\ Decide(w, i, result[r][i].tags, "source", "restored")
    /\ UNCHANGED <<accepted, runVars, rules, caption, selects, faults>>

\* The text that the history of the current revision has; its tags are taken
\* for written by hand.
RestorePrevious(w, i) ==
    /\ Free(w) /\ Edit
    /\ Len(caption[i]) > 1
    /\ Decide(w, i, Current(i).before, "manual", "restored")
    /\ UNCHANGED <<accepted, runVars, rules, caption, selects, faults>>

\* save_caption selects the current revision before its transaction begins.
SelectCurrent(w) ==
    /\ window[w].pc = "save"
    /\ LET s == window[w].save
       IN  window' = [window EXCEPT ![w] =
               [pc |-> "flush",
                save |-> [s EXCEPT !.revision = Len(caption[s.image])]]]
    /\ UNCHANGED <<accepted, runVars, rules, caption, edits, selects, faults>>

\* mutant: no unique index on the current revision of an image
UniqueCurrentAny(save) == TRUE

\* Where another save was committed in between, the unique index on the
\* current revision refuses the new one.
UniqueCurrent(save) == save.revision = Len(caption[save.image])

\* What the selected revision says is what the history gets.
Flush(w) ==
    /\ window[w].pc = "flush"
    /\ LET s == window[w].save
           seen == SubSeq(caption[s.image], 1, s.revision)
           old == IF seen = <<>> THEN NoTags ELSE seen[Len(seen)]
       IN  caption' =
             IF UniqueCurrent(s) /\ ~(seen # <<>> /\ Same(old, s.tags, s.kind))
             THEN [caption EXCEPT ![s.image] =
                      Append(@, [tags |-> s.tags, kind |-> s.kind,
                                 before |-> old.tags,
                                 edit_source |-> s.edit_source])]
             ELSE caption
    /\ window' = [window EXCEPT ![w] = Idle]
    /\ UNCHANGED <<accepted, runVars, rules, edits, selects, faults>>

-----------------------------------------------------------------------------

Select(i) ==
    /\ selects < MaxSelects /\ selects' = selects + 1
    /\ accepted' = IF i \in accepted THEN accepted \ {i}
                                     ELSE accepted \cup {i}
    /\ UNCHANGED <<runVars, captionVars, faults>>

\* The application ends and is started again; only start_run looks at the runs.
Crash ==
    /\ Fault
    /\ task' = [r \in Runs |-> NoTask]
    /\ call' = [w \in Windows |-> NoCall]
    /\ window' = [w \in Windows |-> Idle]
    /\ UNCHANGED <<accepted, run, result, rules, caption, edits, selects>>

Mode == {"all_accepted", "untagged_only", "failed_only"}
Execute(r) == \/ Begin(r) \/ LoadModel(r) \/ Look(r) \/ Tag(r)
              \/ Finish(r) \/ Handle(r)

Next ==
    \/ \E w \in Windows :
          \/ RecoverStaleRuns(w) \/ Insert(w)
          \/ \E mode \in Mode : Ask(w, mode)
    \/ \E r \in Runs : Cancel(r) \/ Execute(r)
    \/ \E w \in Windows :
          \/ ShowPreview(w) \/ CheckToken(w) \/ Apply(w)
          \/ SelectCurrent(w) \/ Flush(w)
          \/ \E i \in Images : \/ SaveImageCaption(w, i)
                               \/ RestoreFromSource(w, i)
                               \/ RestorePrevious(w, i)
    \/ \E i \in Changing \cap Images : Select(i)
    \/ Crash

Spec == Init /\ [][Next]_vars

-----------------------------------------------------------------------------
(* Properties. *)

\* A run that says that it is done has a result for each image it was started
\* for: a completed one where it is COMPLETED, and at least one failed one
\* where it is PARTIALLY_FAILED; whatever cancellations, failures and further
\* starts came between.
EndIsWhole ==
    \A r \in Runs : run[r].status \in Usable =>
        LET statuses == {result[r][i].status : i \in run[r].target}
        IN  /\ "none" \notin statuses
            /\ run[r].status = "partially_failed" <=> "failed" \in statuses

\* The status and the results of a run are the work of its own thread.  A start
\* never makes a run STALE that is not ended, and so does not replace one that
\* is alive; it writes STALE only over a run that it found active and that
\* ended before it asked.
OnlyThreadEnds ==
    [][\A r \in Runs :
          /\ result'[r] # result[r] => task[r].pc = "tag"
          /\ run'[r].status # run[r].status /\ run[r].status # "none" =>
                \/ task[r].pc # "none"
                \/ /\ run[r].status \notin Active
                   /\ run'[r].status = "stale"
                   /\ \E w \in Windows : r \in call[w].loaded]_vars

\* The history of a caption is a chain: each revision has as its "before" the
\* text of the one it follows, so that restoring the previous text restores
\* what the user last saw, also when two windows save at the same time.
RevisionsChained ==
    \A i \in Images : \A n \in DOMAIN caption[i] :
        caption[i][n].before = IF n = 1 THEN {} ELSE caption[i][n - 1].tags

=============================================================================
