------------------------------ MODULE JobLease ------------------------------
(***************************************************************************)
(* What the row of an acquisition job promises to the threads that work on *)
(* it.  The row is open (QUEUED or STALE), running under the claim of one  *)
(* generation, or closed (terminal).  worker_generation numbers the        *)
(* claims; none is granted twice, and a claim that was taken back is never *)
(* honoured again.                                                         *)
(***************************************************************************)
EXTENDS Naturals

VARIABLES
    phase,   \* "open", "running" or "closed"
    owner,   \* generation of the claim that is held, 0 for none
    gen      \* the last generation used

vars == <<phase, owner, gen>>

Init == phase = "open" /\ owner = 0 /\ gen = 0

Claim ==
    /\ phase = "open"
    /\ phase' = "running" /\ owner' = gen + 1 /\ gen' = gen + 1

\* The holder closes the job or leaves it to a later claim.
Close == phase = "running" /\ phase' = "closed" /\ owner' = 0 /\ gen' = gen
Defer == phase = "running" /\ phase' = "open" /\ owner' = 0 /\ gen' = gen

\* Recovery uses up a generation, so that the old claim is void.
TakeOver ==
    /\ phase = "running"
    /\ phase' = "open" /\ owner' = 0 /\ gen' = gen + 1

Reopen == phase = "closed" /\ phase' = "open" /\ UNCHANGED <<owner, gen>>

\* A late UPDATE, computed from a row that has changed since: it may reopen the row
\* or drop the claim, and neither grants a claim nor closes the row.
Overwrite == phase' \in {phase, "open"} /\ owner' \in {0, owner} /\ gen' = gen

Next == Claim \/ Close \/ Defer \/ TakeOver \/ Reopen

Spec == Init /\ [][Next]_vars
=============================================================================
