---------------------------- MODULE ImageSearch ----------------------------
(***************************************************************************)
(* One image search: its row in image_source_searches, the candidates and  *)
(* the cursor checkpoints it has saved, the threads in run_search, and the *)
(* callers of get_search and cancel_search.                                *)
(*                                                                         *)
(* The source is asked page by page; a page is named by a cursor, the      *)
(* number of the last post of the page before it.  What the source answers *)
(* is its own business (posts come and go, and not every order the user    *)
(* may ask for agrees with the cursor), so every request is answered with  *)
(* any of the pages that Source allows.  A page is committed in one        *)
(* transaction.  Which candidates the filter accepts is left out.          *)
(***************************************************************************)
EXTENDS Naturals, Sequences, FiniteSets, SequencesExt

CONSTANTS
    Workers,         \* threads that call run_search
    Callers,         \* threads of the UI
    Posts,           \* numbers of posts
    Source,          \* Source[c]: the pages the source may give for cursor c
    MaxCandidates,   \* maximum_candidate_count
    MaxPages,        \* image_search_max_pages
    MaxRequests,     \* image_search_max_requests
    MaxClaims,       \* claims (a bound)
    MaxFaults        \* crashes and exceptions (a bound)

NoCursor == 0
Cursor == Posts \cup {NoCursor}

ASSUME PostsAssumption == Posts \subseteq Nat \ {NoCursor}
ASSUME SourceAssumption == Source \in [Cursor -> SUBSET Seq(Posts)]
ASSUME BoundsAssumption ==
    {MaxCandidates, MaxPages, MaxRequests, MaxClaims, MaxFaults} \subseteq Nat

Ended == {"completed", "partially_failed", "failed", "canceled"}
Status == {"queued", "running", "stale"} \cup Ended
Reason == {"none", "source_exhausted", "candidate_limit"}
Failure == {"none", "canceled", "cursor_loop", "request_limit", "source", "unknown"}

VARIABLES
    row,         \* the row of the search
    candidates,  \* its rows in image_source_search_results
    pages,       \* its cursor checkpoints, each with the posts of its page
    worker,      \* what each thread in run_search remembers
    caller,      \* "seen": the status that cancel_search read, if it has
    faults

vars == <<row, candidates, pages, worker, caller, faults>>

\* "owner" stands for worker_id and claim_token: the generation at which the
\* claim was taken.  "fresh" says that the heartbeat is young.
Row == [status : Status, cancel : BOOLEAN, owner : Nat, gen : Nat,
        fresh : BOOLEAN, request : Cursor, current : Cursor,
        count : Nat, requests : Nat, returned : Nat, reason : Reason]

Label == {"idle", "resume", "check", "prepare", "fetch", "record", "commit",
          "limits", "finish"}
Worker == [pc : Label, claim : Nat, cursor : Cursor, page : Seq(Posts),
           failure : Failure]
IdleWorker == [pc |-> "idle", claim |-> 0, cursor |-> NoCursor, page |-> <<>>,
               failure |-> "none"]

TypeOK ==
    /\ row \in Row
    /\ candidates \subseteq [post : Posts, order : Nat]
    /\ pages \subseteq [request : Cursor, next : Cursor, posts : SUBSET Posts]
    /\ worker \in [Workers -> Worker]
    /\ caller \in [Callers -> Status \cup {"none"}]
    /\ faults \in 0..MaxFaults

\* start_search inserts the row.
Init ==
    /\ row = [status |-> "queued", cancel |-> FALSE, owner |-> 0, gen |-> 0,
              fresh |-> FALSE, request |-> NoCursor, current |-> NoCursor,
              count |-> 0, requests |-> 0, returned |-> 0, reason |-> "none"]
    /\ candidates = {}
    /\ pages = {}
    /\ worker = [w \in Workers |-> IdleWorker]
    /\ caller = [c \in Callers |-> "none"]
    /\ faults = 0

-----------------------------------------------------------------------------
(* helpers *)

Fault == faults < MaxFaults /\ faults' = faults + 1

At(w, label) == worker[w].pc = label
Go(w, label) == worker' = [worker EXCEPT ![w].pc = label]
Stop(w) == worker' = [worker EXCEPT ![w] = IdleWorker]
Fail(w, failure) ==
    worker' = [worker EXCEPT ![w].pc = "finish", ![w].failure = failure]

\* the WHERE clause of every update of a worker, and of those that ask for the
\* cancellation as well
Holds(w) == row.status = "running" /\ row.owner = worker[w].claim
HoldsUncanceled(w) == Holds(w) /\ ~row.cancel

Found == {c.post : c \in candidates}
Checkpointed(cursor) == \E k \in pages : k.request = cursor

-----------------------------------------------------------------------------
(* run_search *)

ClaimSearch(w) ==
    /\ At(w, "idle")
    /\ row.status \in {"queued", "stale"} /\ row.owner = 0 /\ ~row.cancel
    /\ row.gen < MaxClaims
    /\ row' = [row EXCEPT !.status = "running", !.owner = row.gen + 1,
                          !.gen = @ + 1, !.fresh = TRUE]
    /\ worker' = [worker EXCEPT ![w] =
                     [IdleWorker EXCEPT !.pc = "resume", !.claim = row.gen + 1]]
    /\ UNCHANGED <<candidates, pages, caller, faults>>

\* A claim that is gone already makes it start from the first page.
ResumeCursor(w) ==
    /\ At(w, "resume")
    /\ worker' = [worker EXCEPT
          ![w].pc = "check",
          ![w].cursor = IF row.owner # worker[w].claim THEN NoCursor
                        ELSE IF row.request # NoCursor THEN row.request
                        ELSE row.current]
    /\ UNCHANGED <<row, candidates, pages, caller, faults>>

\* _is_cancel_requested and _cursor_checkpoint_exists
CheckSearch(w) ==
    /\ At(w, "check")
    /\ IF row.cancel THEN Fail(w, "canceled")
       ELSE IF Checkpointed(worker[w].cursor) THEN Fail(w, "cursor_loop")
       ELSE Go(w, "prepare")
    /\ UNCHANGED <<row, candidates, pages, caller, faults>>

\* A worker that lost its claim goes without a word; so does one whose search
\* is cancelled just here.
PreparePage(w) ==
    /\ At(w, "prepare")
    /\ IF HoldsUncanceled(w)
       THEN /\ row' = [row EXCEPT !.request = worker[w].cursor, !.fresh = TRUE]
            /\ Go(w, "fetch")
       ELSE UNCHANGED row /\ Stop(w)
    /\ UNCHANGED <<candidates, pages, caller, faults>>

FetchPage(w) ==
    /\ At(w, "fetch")
    /\ \E page \in Source[worker[w].cursor] :
           worker' = [worker EXCEPT ![w].pc = "record", ![w].page = page]
    /\ UNCHANGED <<row, candidates, pages, caller, faults>>

\* The source does not answer, or the cancellation is seen while it is waited
\* for.
FetchFails(w) ==
    /\ At(w, "fetch")
    /\ \/ Fail(w, "source")
       \/ row.cancel /\ Fail(w, "canceled")
    /\ UNCHANGED <<row, candidates, pages, caller, faults>>

RecordApiRequest(w) ==
    /\ At(w, "record")
    /\ IF Holds(w)
       THEN /\ row' = [row EXCEPT !.requests = @ + 1, !.fresh = TRUE]
            /\ Go(w, "commit")
       ELSE UNCHANGED row /\ Stop(w)
    /\ UNCHANGED <<candidates, pages, caller, faults>>

\* the cursor of the page after this one, from the last post of this one
NextCursor(w) ==
    IF worker[w].page = <<>> THEN NoCursor ELSE Last(worker[w].page)

\* Where the page has a post that is no candidate yet, for the first time.
NewAt(w) ==
    LET page == worker[w].page
    IN  {i \in DOMAIN page : /\ page[i] \notin Found
                             /\ \A j \in 1..(i - 1) : page[j] # page[i]}

\* returned_post_count when the loop comes to i
OrderOf(w, i) == row.returned + Cardinality({j \in NewAt(w) : j < i})

\* The loop over the page ends at the limit.
Upserts(w) == {i \in NewAt(w) : OrderOf(w, i) < MaxCandidates}

\* mutant: a post that is a candidate already is counted once more
CountedPosts(w) == Len(worker[w].page)
Upserted(w) == Cardinality(Upserts(w))

\* _upsert_candidate for the posts of the page
Saved(w) ==
    candidates \cup {[post |-> worker[w].page[i], order |-> OrderOf(w, i)] :
                        i \in Upserts(w)}

LimitReached(w) == row.returned + Upserted(w) >= MaxCandidates
\* mutant: a short page is taken for the last one
TerminalIfShort(w) == LimitReached(w) \/ Len(worker[w].page) < 2
Terminal(w) == LimitReached(w) \/ NextCursor(w) = NoCursor

\* the row after the page
Committed(w) ==
    LET cursor == worker[w].cursor IN
    [row EXCEPT
        !.returned = @ + Upserted(w),
        !.current = IF LimitReached(w) THEN @ ELSE NextCursor(w),
        !.count = IF LimitReached(w) THEN @ ELSE @ + 1,
        !.request = IF NextCursor(w) # NoCursor THEN NextCursor(w) ELSE cursor,
        !.fresh = TRUE,
        !.status = IF Terminal(w) THEN "completed" ELSE @,
        !.reason = IF LimitReached(w) THEN "candidate_limit"
                   ELSE IF Terminal(w) THEN "source_exhausted" ELSE @,
        !.owner = IF Terminal(w) THEN 0 ELSE @]

\* The page that ends at the limit has no checkpoint.
Checkpoint(w) ==
    IF LimitReached(w) THEN pages
    ELSE pages \cup {[request |-> worker[w].cursor, next |-> NextCursor(w),
                      posts |-> Range(worker[w].page)]}

\* mutant: whoever has fetched a page commits it
CommitPageUnclaimed(w) ==
    /\ At(w, "commit")
    /\ row' = Committed(w) /\ candidates' = Saved(w) /\ pages' = Checkpoint(w)
    /\ Go(w, "limits")
    /\ UNCHANGED <<caller, faults>>

\* The claim is touched before, between and after the posts, in one transaction.
CommitPage(w) ==
    /\ At(w, "commit")
    /\ IF ~HoldsUncanceled(w)
       THEN /\ IF row.cancel THEN Fail(w, "canceled") ELSE Stop(w)
            /\ UNCHANGED <<row, candidates, pages>>
       ELSE IF ~LimitReached(w) /\ Checkpointed(worker[w].cursor)
       THEN Fail(w, "cursor_loop") /\ UNCHANGED <<row, candidates, pages>>
       ELSE /\ row' = Committed(w)
            /\ candidates' = Saved(w)
            /\ pages' = Checkpoint(w)
            /\ IF Terminal(w) THEN Stop(w) ELSE Go(w, "limits")
    /\ UNCHANGED <<caller, faults>>

\* _search_page_count and _search_request_count
CheckLimits(w) ==
    /\ At(w, "limits")
    /\ IF row.count >= MaxPages \/ row.requests >= MaxRequests
       THEN Fail(w, "request_limit")
       ELSE worker' = [worker EXCEPT ![w].pc = "check", ![w].page = <<>>,
                                     ![w].cursor = NextCursor(w)]
    /\ UNCHANGED <<row, candidates, pages, caller, faults>>

FinalStatus(w) ==
    IF worker[w].failure = "canceled" THEN "canceled"
    ELSE IF worker[w].failure = "unknown" \/ row.returned > 0
         THEN "partially_failed" ELSE "failed"

\* mutant: a search that found nothing is left as it is
FinishSearchIfFound(w) ==
    /\ At(w, "finish")
    /\ row' = IF Holds(w) /\ row.returned > 0
              THEN [row EXCEPT !.status = FinalStatus(w), !.owner = 0]
              ELSE row
    /\ Stop(w)
    /\ UNCHANGED <<candidates, pages, caller, faults>>

FinishSearch(w) ==
    /\ At(w, "finish")
    /\ row' = IF Holds(w)
              THEN [row EXCEPT !.status = FinalStatus(w), !.owner = 0,
                               !.fresh = TRUE]
              ELSE row
    /\ Stop(w)
    /\ UNCHANGED <<candidates, pages, caller, faults>>

\* Outside of the try block, and in its handlers, an exception ends the thread.
Raise(w) ==
    /\ ~At(w, "idle")
    /\ Fault
    /\ IF worker[w].pc \in {"resume", "finish"} THEN Stop(w) ELSE Fail(w, "unknown")
    /\ UNCHANGED <<row, candidates, pages, caller>>

-----------------------------------------------------------------------------
(* get_search, cancel_search, time, and the end of the process *)

\* The UPDATE asks for the status and the heartbeat once more.
GetSearch ==
    /\ row.status = "running" /\ ~row.fresh
    /\ row' = [row EXCEPT !.status = "stale", !.owner = 0]
    /\ UNCHANGED <<candidates, pages, worker, caller, faults>>

\* image_search_stale_after_seconds pass: a request takes that long, or the
\* worker does.
Lapse ==
    /\ row.status = "running" /\ row.fresh
    /\ row' = [row EXCEPT !.fresh = FALSE]
    /\ UNCHANGED <<candidates, pages, worker, caller, faults>>

CancelSearch(c) ==
    /\ caller[c] = "none"
    /\ caller' = [caller EXCEPT ![c] = row.status]
    /\ UNCHANGED <<row, candidates, pages, worker, faults>>

\* The status is written if the one that was read called for it.
CancelSearchWrite(c) ==
    /\ caller[c] # "none"
    /\ row' = [row EXCEPT
          !.cancel = TRUE,
          !.status = IF caller[c] \in {"queued", "stale"} THEN "canceled" ELSE @]
    /\ caller' = [caller EXCEPT ![c] = "none"]
    /\ UNCHANGED <<candidates, pages, worker, faults>>

Crash ==
    /\ Fault
    /\ worker' = [w \in Workers |-> IdleWorker]
    /\ caller' = [c \in Callers |-> "none"]
    /\ UNCHANGED <<row, candidates, pages>>

-----------------------------------------------------------------------------
Run(w) ==
    \/ ResumeCursor(w) \/ CheckSearch(w) \/ PreparePage(w)
    \/ FetchPage(w) \/ FetchFails(w) \/ RecordApiRequest(w) \/ CommitPage(w)
    \/ CheckLimits(w) \/ FinishSearch(w)

Next == \/ \E w \in Workers : ClaimSearch(w) \/ Run(w) \/ Raise(w)
        \/ \E c \in Callers : CancelSearch(c) \/ CancelSearchWrite(c)
        \/ GetSearch \/ Lapse \/ Crash

Spec == Init /\ [][Next]_vars

\* Threads run, and a request ends with an answer or an error (its time-outs and
\* retries are bounded).  Nobody has to ask for the search.
FairSpec == Spec /\ \A w \in Workers : WF_vars(Run(w))

-----------------------------------------------------------------------------
(* properties *)

\* The counter of the row is the number of candidates, whose orders are gapless:
\* pages that are fetched twice and posts that come twice do not disturb them.
CandidatesCounted ==
    /\ Cardinality(Found) = Cardinality(candidates)
    /\ {c.order : c \in candidates} = 0..(row.returned - 1)
    /\ Cardinality(candidates) = row.returned
    /\ row.returned <= MaxCandidates

\* The committed pages form one chain from the first page to current_cursor, and
\* every post they had is a candidate, whoever worked on them and wherever the
\* workers were cut off (README.md:301).
PagesChained ==
    /\ Cardinality(pages) = row.count
    /\ \A k \in pages :
           /\ k.request # NoCursor => \E j \in pages : j.next = k.request
           /\ k.posts \subseteq Found
           /\ \A j \in pages : j.request = k.request => j = k
    /\ row.current # NoCursor => \E k \in pages : k.next = row.current

\* A search that is COMPLETED has reached its limit or the end of the source.
CompletedIsWhole ==
    row.status = "completed" =>
        \/ row.reason = "candidate_limit" /\ row.returned = MaxCandidates
        \/ /\ row.reason = "source_exhausted"
           /\ \E k \in pages : k.next = NoCursor

\* A search that is not disturbed by a cancellation or an exception ends, or is
\* found stale: loops of cursors and sources without an end are cut off.
SearchEnds ==
    row.status = "running" ~> (row.status # "running" \/ row.cancel \/ faults # 0)
=============================================================================
