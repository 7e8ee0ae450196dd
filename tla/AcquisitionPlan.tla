-------------------------- MODULE AcquisitionPlan --------------------------
(***************************************************************************)
(* From the candidates of image searches to acquisition plans: the posts   *)
(* in external_image_posts, which every search of every project refreshes, *)
(* the candidates with the metadata each search saw, previews in the UI,   *)
(* and confirm_plan, which turns a preview into a plan and reserves its    *)
(* posts.  ImageSearch has the searches themselves; here a search commits  *)
(* pages until it ends.                                                    *)
(*                                                                         *)
(* confirm_plan reads everything first and opens its transaction with the  *)
(* INSERT of the plan: others may commit in between.  Each of its checks   *)
(* is about one item, whose rows it reads once, so that the reads together *)
(* are one step; a change between two of them is a change after them.      *)
(* Imports are left out: a post is imported by a job of the plan that has  *)
(* reserved it, and no reservation is ever given up, so that               *)
(* _already_imported decides nothing that _already_planned does not.       *)
(***************************************************************************)
EXTENDS Naturals, FiniteSets

CONSTANTS
    Callers,    \* threads of the UI
    Posts,
    Searches,
    Versions,   \* what a post's metadata may be
    MaxPlans,   \* plans (a bound)
    NoPreview   \* what the UI has before the first preview

ASSUME PlansAssumption == MaxPlans \in Nat

VARIABLES
    post,         \* post[p]: its metadata; "unseen" before the first search
    status,       \* status[s]
    result,       \* result[s][p]: the candidate that search s made of post p
    reservation,  \* reservation[p]: the plan that reserved p, 0 for none
    plans,        \* the rows of image_acquisition_plans with their items
    preview,      \* preview[c]: what the UI shows to c
    confirming    \* confirming[c]: c validated its preview and is about to insert

planVars == <<post, status, result, reservation, plans, preview, confirming>>

\* exclusion_reasons_json is "[]" for an accepted candidate.
NoResult == [version |-> "unseen", accepted |-> FALSE]
Result == [version : Versions, accepted : BOOLEAN] \cup {NoResult}
\* A search that fails or is cancelled allows no more than one that runs on.
SearchStatus == {"running", "completed"}

\* The items of a preview and the metadata they had make up its fingerprint.
Preview == [search : Searches, items : SUBSET Posts,
            version : [Posts -> Versions \cup {"unseen"}]]
ASSUME NoPreviewAssumption == NoPreview \notin Preview
Plan == [id : 1..MaxPlans, preview : Preview]

PlanTypeOK ==
    /\ post \in [Posts -> Versions \cup {"unseen"}]
    /\ status \in [Searches -> SearchStatus]
    /\ result \in [Searches -> [Posts -> Result]]
    /\ reservation \in [Posts -> 0..MaxPlans]
    /\ plans \subseteq Plan
    /\ preview \in [Callers -> Preview \cup {NoPreview}]
    /\ confirming \in [Callers -> BOOLEAN]
    /\ \A c \in Callers : confirming[c] => preview[c] # NoPreview

PlanInit ==
    /\ post = [p \in Posts |-> "unseen"]
    /\ status = [s \in Searches |-> "running"]
    /\ result = [s \in Searches |-> [p \in Posts |-> NoResult]]
    /\ reservation = [p \in Posts |-> 0]
    /\ plans = {}
    /\ preview = [c \in Callers |-> NoPreview]
    /\ confirming = [c \in Callers |-> FALSE]

-----------------------------------------------------------------------------
(* searches *)

Planned(p) ==
    \/ reservation[p] # 0
    \/ \E plan \in plans : p \in plan.preview.items

\* filter_source_post, without what it says of the metadata alone: a post it
\* excludes for that is in no preview.
Acceptable(p) == ~Planned(p)

\* _upsert_candidate: the post is refreshed in any case, the candidate of this
\* search is made once.
CommitPage(s) ==
    /\ status[s] = "running"
    /\ \E p \in Posts, v \in Versions :
           /\ post' = [post EXCEPT ![p] = v]
           /\ result' = IF result[s][p] # NoResult THEN result
                        ELSE [result EXCEPT ![s][p] =
                                 [version |-> v, accepted |-> Acceptable(p)]]
    /\ \E next \in {"running", "completed"} : status' = [status EXCEPT ![s] = next]
    /\ UNCHANGED <<reservation, plans, preview, confirming>>

-----------------------------------------------------------------------------
(* preview_plan and confirm_plan *)

Accepted(s) == {p \in Posts : result[s][p].accepted}

\* The preview has the metadata that the posts have now, whatever the search saw.
PreviewPlan(c) ==
    /\ ~confirming[c]
    /\ \E s \in Searches : \E items \in SUBSET Accepted(s) :
           preview' = [preview EXCEPT ![c] =
               [search |-> s, items |-> items,
                version |-> [p \in Posts |-> IF p \in items THEN post[p]
                                             ELSE "unseen"]]]
    /\ UNCHANGED <<post, status, result, reservation, plans, confirming>>

\* the plan with the fingerprint of the preview
Existing(pv) == {plan \in plans : plan.preview = pv}

\* mutant: the metadata that the search saw is not compared
ItemUnchangedSinceSearch(pv, p) ==
    /\ result[pv.search][p].accepted
    /\ post[p] = pv.version[p]
    /\ ~Planned(p)

ItemConfirmable(pv, p) ==
    /\ result[pv.search][p].accepted
    /\ post[p] = pv.version[p] /\ result[pv.search][p].version = pv.version[p]
    /\ ~Planned(p)

\* If the plan exists its number is the answer, and if a check fails the preview
\* is refused; neither changes anything.
ConfirmPlan(c) ==
    LET pv == preview[c] IN
    /\ pv # NoPreview /\ ~confirming[c]
    /\ Existing(pv) = {}
    /\ status[pv.search] = "completed"
    /\ \A p \in pv.items : ItemConfirmable(pv, p)
    /\ confirming' = [confirming EXCEPT ![c] = TRUE]
    /\ UNCHANGED <<post, status, result, reservation, plans, preview>>

\* the posts of a preview that other plans reserved since they were checked
Taken(pv) == {p \in pv.items : reservation[p] # 0}

\* mutant: the plan is kept with the posts it got
InsertPlanPartly(c) ==
    LET pv == preview[c]
        id == Cardinality(plans) + 1
    IN /\ confirming[c] /\ Cardinality(plans) < MaxPlans
       /\ plans' = plans \cup {[id |-> id, preview |-> pv]}
       /\ reservation' = [p \in Posts |-> IF p \in pv.items \ Taken(pv) THEN id
                                          ELSE reservation[p]]
       /\ confirming' = [confirming EXCEPT ![c] = FALSE]
       /\ UNCHANGED <<post, status, result, preview>>

\* One transaction: the plan, unless its fingerprint is there, its items and all
\* of their reservations, or nothing.
InsertPlan(c) ==
    LET pv == preview[c]
        id == Cardinality(plans) + 1
    IN /\ confirming[c]
       /\ \/ /\ Existing(pv) = {} /\ Taken(pv) = {}
             /\ Cardinality(plans) < MaxPlans
             /\ plans' = plans \cup {[id |-> id, preview |-> pv]}
             /\ reservation' = [p \in Posts |-> IF p \in pv.items THEN id
                                                ELSE reservation[p]]
          \/ /\ Existing(pv) # {} \/ Taken(pv) # {}
             /\ UNCHANGED <<plans, reservation>>
       /\ confirming' = [confirming EXCEPT ![c] = FALSE]
       /\ UNCHANGED <<post, status, result, preview>>

-----------------------------------------------------------------------------
(* the acquisition job of a plan *)

\* _validate_plan_structure: what start_job wants of a plan
Startable(plan) ==
    LET pv == plan.preview IN
    /\ {p \in Posts : reservation[p] = plan.id} = pv.items
    /\ \A p \in pv.items :
           /\ result[pv.search][p].accepted
           /\ result[pv.search][p].version = pv.version[p]

-----------------------------------------------------------------------------
PlanNext ==
    \/ \E s \in Searches : CommitPage(s)
    \/ \E c \in Callers : PreviewPlan(c) \/ ConfirmPlan(c) \/ InsertPlan(c)

PlanSpec == PlanInit /\ [][PlanNext]_planVars

-----------------------------------------------------------------------------
(* properties *)

\* A post is in one plan at most, and it is reserved for the plan that has it:
\* two callers who confirm overlapping previews at once do not share posts
\* (README.md:299).
PlannedOnce ==
    /\ \A i, j \in plans : i.preview.items \cap j.preview.items # {} => i = j
    /\ \A p \in Posts :
           reservation[p] # 0 <=> \E plan \in plans : p \in plan.preview.items

\* A preview is confirmed once, whoever confirms it how often (README.md:303).
ConfirmedOnce == \A i, j \in plans : i.preview = j.preview \/ i.id = j.id => i = j

\* Every plan that was confirmed can be started, however the searches went on
\* and the posts changed: confirm_plan checks all that start_job asks for later.
ConfirmedStartable == \A plan \in plans : Startable(plan)
=============================================================================
