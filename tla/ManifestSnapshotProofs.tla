---------------------- MODULE ManifestSnapshotProofs ----------------------
(* The artifacts that others read while they are replaced.                   *)
(*                                                                           *)
(* What holds of ManifestStore for any writers, claims and faults: typing,   *)
(* the lease and the order of the references wherever claims go stale; the   *)
(* manifest a row names is kept if no claim goes stale during a sweep.       *)
(*                                                                           *)
(* What holds of DatasetSnapshot for any applications, snapshots, images,    *)
(* changes and failures: a COMPLETED snapshot is the confirmed preview, and  *)
(* a start takes up every directory that was renamed.  The two modules share *)
(* no state.                                                                 *)
EXTENDS ManifestStore, DatasetSnapshot, WellFoundedInduction, TLAPS

-----------------------------------------------------------------------------
(* ManifestStore: the inductive invariants *)

\* Only the last generation is ever held, and the row names no later one.
RowInv ==
    /\ owner \in {0, gen}
    /\ phase = "running" <=> owner # 0
    /\ ref <= gen

\* A claim belongs to one thread.
ThreadInv ==
    /\ \A w \in Writers :
          /\ writer[w].claim <= gen
          /\ writer[w].pc # "idle" => writer[w].claim # 0
    /\ \A w, u \in Writers :
          writer[w].claim = writer[u].claim /\ writer[w].claim # 0 => w = u

ScanInv ==
    /\ \A f \in scan.rest : f.gen \in 1..gen
    /\ scan.name.gen <= gen

ClaimInv == RowInv /\ ThreadInv /\ ScanInv

\* The row names a writer's file from the UPDATE on, and not before it nor after
\* the reference was cleared.
ReferenceOf(w) ==
    /\ writer[w].pc \in {"write", "recheck", "replace", "reference", "discard"}
          => ref # writer[w].claim
    /\ writer[w].pc \in {"verify", "sweep", "unlink", "finish"} /\ Holds(w)
          => ref = writer[w].claim
ReferenceInv == \A w \in Writers : ReferenceOf(w)

\* The labels between the publication and the end of the sweep.
SweepLabels == {"verify", "sweep", "unlink"}

\* What a sweep and the orphan scan are about to remove is not named, and will
\* not be.
KeepOf(w) ==
    /\ writer[w].pc \in SweepLabels => Holds(w)
    /\ writer[w].pc \in SweepLabels \cup {"reference", "finish"} /\ Holds(w)
          => Final(writer[w].claim) \in files
    /\ writer[w].pc = "unlink" => Final(writer[w].claim) \notin writer[w].rest
ScanKeeps ==
    scan.pc = "unlink" =>
        /\ scan.name.gen # 0
        /\ scan.name # Final(ref)
        /\ owner # 0 => scan.name # Final(owner)
\* The writer of a closed job's manifest is done.
ClosedLeft == phase = "closed" => \A w \in Writers : writer[w].claim # ref
KeepInv ==
    (\A w \in Writers : KeepOf(w)) /\ ScanKeeps /\ ClosedHasManifest /\ ClosedLeft

BaseInv == TypeOK /\ ClaimInv /\ ReferenceInv
Inv == BaseInv /\ KeepInv

-----------------------------------------------------------------------------
(* Typing *)

LEMMA IdleType == IdleWriter \in WriterState /\ IdleScan \in ScanState
BY DEF IdleWriter, IdleScan, WriterState, ScanState, Label, File, Final

\* A change of one thread keeps the type if the new state has it.
LEMMA BecomesType ==
    ASSUME TypeOK, NEW w \in Writers, NEW state \in WriterState, Becomes(w, state)
    PROVE  writer' \in [Writers -> WriterState]
BY DEF TypeOK, Becomes

LEMMA GoType ==
    ASSUME TypeOK, NEW w \in Writers, NEW label \in Label, Go(w, label)
    PROVE  writer' \in [Writers -> WriterState]
<1>. DEFINE state == [writer[w] EXCEPT !.pc = label]
<1>1. state \in WriterState
  BY DEF TypeOK, WriterState
<1>. QED  BY <1>1, BecomesType DEF Go

LEMMA LeaveType ==
    ASSUME TypeOK, NEW w \in Writers, Leave(w)
    PROVE  writer' \in [Writers -> WriterState]
BY IdleType, BecomesType DEF Leave

\* A writer's own names lie within the generations used.
LEMMA OwnFiles ==
    ASSUME TypeOK, ClaimInv, NEW w \in Writers, writer[w].pc # "idle"
    PROVE  /\ writer[w].claim \in 1..gen
           /\ Final(writer[w].claim) \in File
           /\ Temporary(writer[w].claim) \in File
           /\ Final(writer[w].claim).gen \in 1..gen
           /\ Temporary(writer[w].claim).gen \in 1..gen
<1>1. writer[w].claim \in Nat /\ gen \in Nat
  BY DEF TypeOK, WriterState
<1>2. writer[w].claim <= gen /\ writer[w].claim # 0
  BY DEF ClaimInv, ThreadInv
<1>. QED  BY <1>1, <1>2 DEF Final, Temporary, File

LEMMA TypeStep ==
    ASSUME TypeOK, ClaimInv, BoundsAssumption, Next
    PROVE  TypeOK'
<1>1. ASSUME NEW w \in Writers, Claim(w) PROVE TypeOK'
  <2>. DEFINE state == [writer[w] EXCEPT !.pc = "write", !.claim = gen + 1]
  <2>0. gen + 1 \in Nat /\ writer[w] \in WriterState
    BY DEF TypeOK
  <2>1. state \in WriterState
    BY <2>0 DEF WriterState, Label
  <2>2. writer' \in [Writers -> WriterState]
    BY <1>1, <2>1, BecomesType DEF Claim
  <2>. QED  BY <1>1, <2>0, <2>2 DEF Claim, TypeOK, row
<1>2. ASSUME NEW w \in Writers, WriteTemporary(w) PROVE TypeOK'
  <2>1. writer' \in [Writers -> WriterState]
    BY <1>2, GoType DEF WriteTemporary, Label
  <2>. QED  BY <1>2, <2>1, OwnFiles DEF WriteTemporary, At, TypeOK, row
<1>3. ASSUME NEW w \in Writers, RecheckClaim(w) PROVE TypeOK'
  <2>1. writer' \in [Writers -> WriterState]
    BY <1>3, GoType, LeaveType DEF RecheckClaim, Label
  <2>. QED  BY <1>3, <2>1 DEF RecheckClaim, TypeOK, row
<1>4. ASSUME NEW w \in Writers, Replace(w) PROVE TypeOK'
  <2>1. writer' \in [Writers -> WriterState]
    BY <1>4, GoType DEF Replace, Label
  <2>. QED  BY <1>4, <2>1, OwnFiles DEF Replace, At, TypeOK, row
<1>5. ASSUME NEW w \in Writers, WriteFails(w) PROVE TypeOK'
  <2>1. writer' \in [Writers -> WriterState]
    BY <1>5, GoType DEF WriteFails, Label
  <2>2. faults' \in 0..MaxFaults
    BY <1>5 DEF WriteFails, Fault, TypeOK, BoundsAssumption
  <2>3. PICK left \in SUBSET Own(w) : files' = (files \ Own(w)) \cup left
    BY <1>5 DEF WriteFails
  <2>4. files' \in SUBSET File /\ \A f \in files' : f.gen \in 1..gen
    BY <1>5, <2>3, OwnFiles DEF WriteFails, Own, TypeOK
  <2>. QED  BY <1>5, <2>1, <2>2, <2>4 DEF WriteFails, TypeOK, row
<1>6. ASSUME NEW w \in Writers, Reference(w) PROVE TypeOK'
  <2>1. writer' \in [Writers -> WriterState]
    BY <1>6, GoType, LeaveType DEF Reference, Label
  <2>. QED  BY <1>6, <2>1, OwnFiles DEF Reference, At, TypeOK, row
<1>7. ASSUME NEW w \in Writers, ReferenceFails(w) PROVE TypeOK'
  <2>1. writer' \in [Writers -> WriterState]
    BY <1>7, GoType DEF ReferenceFails, Label
  <2>2. faults' \in 0..MaxFaults
    BY <1>7 DEF ReferenceFails, Fault, TypeOK, BoundsAssumption
  <2>. QED  BY <1>7, <2>1, <2>2, OwnFiles DEF ReferenceFails, At, TypeOK, row
<1>7a. ASSUME NEW w \in Writers, Doubt(w) PROVE TypeOK'
  <2>1. writer' \in [Writers -> WriterState]
    BY <1>7a, GoType DEF Doubt, Label
  <2>. QED  BY <1>7a, <2>1 DEF Doubt, TypeOK, row
<1>7b. ASSUME NEW w \in Writers, DoubtFails(w) PROVE TypeOK'
  <2>1. writer' \in [Writers -> WriterState]
    BY <1>7b, GoType DEF DoubtFails, Label
  <2>2. faults' \in 0..MaxFaults
    BY <1>7b DEF DoubtFails, Fault, TypeOK, BoundsAssumption
  <2>. QED  BY <1>7b, <2>1, <2>2 DEF DoubtFails, TypeOK, row
<1>8. ASSUME NEW w \in Writers, PostCommitVerify(w) \/ ClearReference(w) \/ Discard(w)
      PROVE TypeOK'
  <2>1. writer' \in [Writers -> WriterState]
    BY <1>8, GoType DEF PostCommitVerify, ClearReference, Discard, Label
  <2>. QED  BY <1>8, <2>1 DEF PostCommitVerify, ClearReference, Discard, TypeOK, row
<1>9. ASSUME NEW w \in Writers, VerifyFails(w) \/ ClearFails(w) PROVE TypeOK'
  <2>1. writer' \in [Writers -> WriterState]
    BY <1>9, GoType DEF VerifyFails, ClearFails, Label
  <2>2. faults' \in 0..MaxFaults
    BY <1>9 DEF VerifyFails, ClearFails, Fault, TypeOK, BoundsAssumption
  <2>. QED  BY <1>9, <2>1, <2>2 DEF VerifyFails, ClearFails, TypeOK, row
<1>10. ASSUME NEW w \in Writers, ListArtifacts(w) PROVE TypeOK'
  <2>. DEFINE state == [writer[w] EXCEPT !.pc = "unlink",
                            !.rest = files \ {Final(writer[w].claim)}]
  <2>1. state \in WriterState
    BY DEF TypeOK, WriterState, Label
  <2>2. writer' \in [Writers -> WriterState]
    BY <1>10, <2>1, GoType, BecomesType DEF ListArtifacts, Label
  <2>. QED  BY <1>10, <2>2 DEF ListArtifacts, TypeOK, row
<1>11. ASSUME NEW w \in Writers, Unlink(w) PROVE TypeOK'
  <2>1. CASE Go(w, "finish") /\ UNCHANGED files
    BY <1>11, <2>1, GoType DEF Unlink, TypeOK, row, Label
  <2>2. ASSUME NEW f \in writer[w].rest, files' = files \ {f},
               Becomes(w, [writer[w] EXCEPT !.rest = @ \ {f}])
        PROVE TypeOK'
    <3>. DEFINE state == [writer[w] EXCEPT !.rest = @ \ {f}]
    <3>1. state \in WriterState
      BY DEF TypeOK, WriterState
    <3>2. writer' \in [Writers -> WriterState]
      BY <2>2, <3>1, BecomesType
    <3>. QED  BY <1>11, <2>2, <3>2 DEF Unlink, TypeOK, row
  <2>. QED  BY <1>11, <2>1, <2>2 DEF Unlink
<1>12. ASSUME NEW w \in Writers, SweepFails(w) PROVE TypeOK'
  <2>. DEFINE state == [writer[w] EXCEPT !.pc = "defer", !.rest = {}]
  <2>1. state \in WriterState
    BY DEF TypeOK, WriterState, Label
  <2>2. writer' \in [Writers -> WriterState]
    BY <1>12, <2>1, BecomesType DEF SweepFails
  <2>3. faults' \in 0..MaxFaults
    BY <1>12 DEF SweepFails, Fault, TypeOK, BoundsAssumption
  <2>. QED  BY <1>12, <2>2, <2>3 DEF SweepFails, TypeOK, row
<1>13. ASSUME NEW w \in Writers, FinishJob(w) \/ DeferManifestRepair(w)
       PROVE TypeOK'
  <2>1. writer' \in [Writers -> WriterState]
    BY <1>13, GoType, LeaveType DEF FinishJob, DeferManifestRepair, Label
  <2>. QED  BY <1>13, <2>1 DEF FinishJob, DeferManifestRepair, TypeOK
<1>14. CASE ScanJob
  BY <1>14 DEF ScanJob, TypeOK, ScanState, row
<1>15. CASE ScanList
  BY <1>15 DEF ScanList, Candidates, TypeOK, ScanState, row
<1>16. CASE ScanCheck
  <2>1. CASE scan' = IdleScan
    BY <1>16, <2>1, IdleType DEF ScanCheck, TypeOK, row
  <2>2. ASSUME NEW f \in scan.rest,
               scan' \in {[scan EXCEPT !.pc = "unlink", !.name = f],
                          [scan EXCEPT !.rest = @ \ {f}]}
        PROVE TypeOK'
    BY <1>16, <2>2 DEF ScanCheck, TypeOK, ScanState, row
  <2>. QED  BY <1>16, <2>1, <2>2 DEF ScanCheck
<1>17. CASE ScanUnlink
  BY <1>17 DEF ScanUnlink, TypeOK, ScanState, Final, File, row
<1>18. CASE TakeOver \/ Reopen
  BY <1>18 DEF TakeOver, Reopen, TypeOK
<1>19. CASE Crash
  BY <1>19, IdleType DEF Crash, Fault, TypeOK, BoundsAssumption, row
<1>. QED
  BY <1>1, <1>2, <1>3, <1>4, <1>5, <1>6, <1>7, <1>7a, <1>7b, <1>8, <1>9, <1>10, <1>11, <1>12,
     <1>13, <1>14, <1>15, <1>16, <1>17, <1>18, <1>19
     DEF Next, Write, Fails, Scan

-----------------------------------------------------------------------------
(* Claims and references *)

\* What Becomes leaves of the threads.
LEMMA BecomesFrame ==
    ASSUME TypeOK, NEW w \in Writers, NEW state, Becomes(w, state)
    PROVE  /\ writer'[w] = state
           /\ \A u \in Writers : u # w => writer'[u] = writer[u]
BY DEF TypeOK, Becomes

LEMMA GoFrame ==
    ASSUME TypeOK, NEW w \in Writers, NEW label, Go(w, label)
    PROVE  /\ writer'[w].pc = label
           /\ writer'[w].claim = writer[w].claim
           /\ writer'[w].rest = writer[w].rest
           /\ \A u \in Writers : u # w => writer'[u] = writer[u]
BY BecomesFrame DEF TypeOK, WriterState, Go

LEMMA LeaveFrame ==
    ASSUME TypeOK, NEW w \in Writers, Leave(w)
    PROVE  /\ writer'[w] = IdleWriter
           /\ writer'[w].pc = "idle" /\ writer'[w].claim = 0
           /\ \A u \in Writers : u # w => writer'[u] = writer[u]
BY BecomesFrame DEF Leave, IdleWriter

\* A thread goes on with its claim, or leaves.
Continues(w) ==
    /\ \A u \in Writers : u # w => writer'[u] = writer[u]
    /\ \/ writer'[w].claim = writer[w].claim /\ writer[w].pc # "idle"
       \/ writer'[w].claim = 0 /\ writer'[w].pc = "idle"

LEMMA WriterContinues ==
    ASSUME TypeOK, NEW w \in Writers, Write(w) \/ Fails(w)
    PROVE  Continues(w)
<1>1. CASE \/ WriteTemporary(w) \/ RecheckClaim(w) \/ Replace(w) \/ Reference(w)
           \/ Doubt(w) \/ PostCommitVerify(w) \/ ClearReference(w) \/ Discard(w)
  BY <1>1, GoFrame, LeaveFrame
     DEF WriteTemporary, RecheckClaim, Replace, Reference, Doubt, PostCommitVerify,
         ClearReference, Discard, Continues, At
<1>2. CASE FinishJob(w) \/ DeferManifestRepair(w)
  BY <1>2, GoFrame, LeaveFrame
  DEF FinishJob, DeferManifestRepair, Continues, At
<1>3. CASE \/ WriteFails(w) \/ ReferenceFails(w) \/ DoubtFails(w)
           \/ VerifyFails(w) \/ ClearFails(w)
  BY <1>3, GoFrame
     DEF WriteFails, ReferenceFails, DoubtFails, VerifyFails, ClearFails, Continues,
         At
<1>4. CASE ListArtifacts(w) \/ SweepFails(w)
  <2>. DEFINE listed == [writer[w] EXCEPT !.pc = "unlink",
                             !.rest = files \ {Final(writer[w].claim)}]
              failed == [writer[w] EXCEPT !.pc = "defer", !.rest = {}]
  <2>1. writer[w] \in WriterState
    BY DEF TypeOK
  <2>2. listed.claim = writer[w].claim /\ failed.claim = writer[w].claim
    BY <2>1 DEF WriterState
  <2>3. Becomes(w, listed) \/ Becomes(w, failed) \/ Go(w, "defer")
    BY <1>4 DEF ListArtifacts, SweepFails
  <2>4. writer[w].pc # "idle"
    BY <1>4 DEF ListArtifacts, SweepFails, At
  <2>. HIDE DEF listed, failed
  <2>. QED
    BY <2>2, <2>3, <2>4, GoFrame, BecomesFrame DEF Continues
<1>5. CASE Unlink(w)
  <2>1. writer[w] \in WriterState
    BY DEF TypeOK
  <2>2. ASSUME NEW f \in writer[w].rest,
               Becomes(w, [writer[w] EXCEPT !.rest = @ \ {f}])
        PROVE  Continues(w)
    BY <1>5, <2>1, <2>2, BecomesFrame DEF Unlink, Continues, At, WriterState
  <2>. QED  BY <1>5, <2>2, GoFrame DEF Unlink, Continues, At
<1>. QED  BY <1>1, <1>2, <1>3, <1>4, <1>5 DEF Write, Fails

LEMMA ClaimStep ==
    ASSUME TypeOK, ClaimInv, Next
    PROVE  ClaimInv'
<1>. USE DEF ClaimInv, RowInv
<1>0. gen \in Nat /\ owner \in Nat /\ ref \in Nat
  BY DEF TypeOK
<1>1. ASSUME NEW w \in Writers, Claim(w) PROVE ClaimInv'
  <2>1. writer[w] \in WriterState
    BY DEF TypeOK
  <2>. DEFINE state == [writer[w] EXCEPT !.pc = "write", !.claim = gen + 1]
  <2>0. state.claim = gen + 1 /\ Becomes(w, state)
    BY <1>1, <2>1 DEF Claim, WriterState
  <2>2. /\ writer'[w].claim = gen + 1
        /\ \A u \in Writers : u # w => writer'[u] = writer[u]
    <3>. HIDE DEF state
    <3>. QED  BY <2>0, BecomesFrame
  <2>3. \A u \in Writers : writer[u].claim \in Nat
    BY DEF TypeOK, WriterState
  <2>4. scan.name.gen \in Nat /\ scan' = scan
    BY <1>1 DEF Claim, TypeOK, ScanState, File
  <2>5. gen' = gen + 1 /\ RowInv'
    BY <1>0, <1>1 DEF Claim
  <2>6. ThreadInv'
    BY <1>0, <2>2, <2>3, <2>5 DEF ThreadInv
  <2>7. ScanInv'
    BY <1>0, <2>4, <2>5 DEF ScanInv
  <2>. QED  BY <2>5, <2>6, <2>7
<1>2. ASSUME NEW w \in Writers, Write(w) \/ Fails(w) PROVE ClaimInv'
  <2>1. Continues(w)
    BY <1>2, WriterContinues
  <2>3. gen' = gen /\ scan' = scan
    BY <1>2 DEF Write, Fails, WriteTemporary, RecheckClaim, Replace, Reference,
         PostCommitVerify, ClearReference, Discard, ListArtifacts, Unlink,
         FinishJob, DeferManifestRepair, WriteFails, ReferenceFails, Doubt,
         DoubtFails, VerifyFails, ClearFails, SweepFails, row
  <2>4. /\ owner' \in {0, gen}
        /\ phase' = "running" <=> owner' # 0
    BY <1>2 DEF Write, Fails, WriteTemporary, RecheckClaim, Replace, Reference,
         PostCommitVerify, ClearReference, Discard, ListArtifacts, Unlink,
         FinishJob, DeferManifestRepair, WriteFails, ReferenceFails, Doubt,
         DoubtFails, VerifyFails, ClearFails, SweepFails, row
  <2>5. ref' \in {ref, 0, writer[w].claim}
    BY <1>2 DEF Write, Fails, WriteTemporary, RecheckClaim, Replace, Reference,
         PostCommitVerify, ClearReference, Discard, ListArtifacts, Unlink,
         FinishJob, DeferManifestRepair, WriteFails, ReferenceFails, Doubt,
         DoubtFails, VerifyFails, ClearFails, SweepFails
  <2>6. ref' <= gen
    BY <1>0, <2>5 DEF ThreadInv
  <2>7. ThreadInv'
    BY <1>0, <2>1, <2>3 DEF Continues, ThreadInv
  <2>8. ScanInv'
    BY <2>3 DEF ScanInv
  <2>9. RowInv'
    BY <2>3, <2>4, <2>6
  <2>. QED  BY <2>7, <2>8, <2>9
<1>3. CASE Scan
  <2>1. UNCHANGED <<phase, owner, gen, ref, writer>>
    BY <1>3 DEF Scan, ScanJob, ScanList, ScanCheck, ScanUnlink, row
  <2>2. (\A f \in scan'.rest : f.gen \in 1..gen) /\ scan'.name.gen <= gen
    <3>. USE DEF ScanInv
    <3>1. CASE ScanJob
      BY <1>0, <3>1 DEF ScanJob, TypeOK, ScanState
    <3>2. CASE ScanList
      BY <1>0, <3>2 DEF ScanList, Candidates, TypeOK, ScanState
    <3>3. CASE ScanCheck
      <4>1. CASE scan' = IdleScan
        BY <1>0, <4>1 DEF IdleScan, Final
      <4>2. ASSUME NEW f \in scan.rest,
                   scan' = [scan EXCEPT !.pc = "unlink", !.name = f]
            PROVE (\A e \in scan'.rest : e.gen \in 1..gen) /\ scan'.name.gen <= gen
        <5>1. scan'.rest = scan.rest /\ scan'.name = f
          BY <4>2 DEF TypeOK, ScanState
        <5>2. f.gen \in 1..gen
          BY <4>2
        <5>. QED  BY <1>0, <5>1, <5>2
      <4>3. ASSUME NEW f \in scan.rest, scan' = [scan EXCEPT !.rest = @ \ {f}]
            PROVE (\A e \in scan'.rest : e.gen \in 1..gen) /\ scan'.name.gen <= gen
        <5>1. scan'.rest = scan.rest \ {f} /\ scan'.name = scan.name
          BY <4>3 DEF TypeOK, ScanState
        <5>. QED  BY <1>0, <5>1
      <4>. QED  BY <3>3, <4>1, <4>2, <4>3 DEF ScanCheck
    <3>4. CASE ScanUnlink
      BY <1>0, <3>4 DEF ScanUnlink, TypeOK, ScanState, Final
    <3>. QED  BY <1>3, <3>1, <3>2, <3>3, <3>4 DEF Scan
  <2>. QED  BY <2>1, <2>2 DEF ThreadInv, ScanInv
<1>4. CASE TakeOver
  <2>1. \A u \in Writers : writer[u].claim \in Nat
    BY DEF TypeOK, WriterState
  <2>2. scan.name.gen \in Nat
    BY DEF TypeOK, ScanState, File
  <2>. QED  BY <1>0, <1>4, <2>1, <2>2 DEF TakeOver, ThreadInv, ScanInv
<1>5. CASE Reopen
  BY <1>5 DEF Reopen, ThreadInv, ScanInv
<1>6. CASE Crash
  BY <1>0, <1>6 DEF Crash, IdleWriter, IdleScan, Final, row, ThreadInv, ScanInv
<1>. QED
  BY <1>1, <1>2, <1>3, <1>4, <1>5, <1>6 DEF Next

\* A writer touches the row only while it holds the claim.
LEMMA WriterRow ==
    ASSUME NEW w \in Writers, Write(w) \/ Fails(w)
    PROVE  /\ gen' = gen /\ scan' = scan
           /\ \/ UNCHANGED <<phase, owner>>
              \/ Holds(w) /\ phase' \in {"open", "closed"} /\ owner' = 0
           /\ ref' = ref \/ (Holds(w) /\ ref' \in {0, writer[w].claim})
<1>1. gen' = gen /\ scan' = scan
  BY DEF Write, Fails, WriteTemporary, RecheckClaim, Replace, Reference,
         PostCommitVerify, ClearReference, Discard, ListArtifacts, Unlink,
         FinishJob, DeferManifestRepair, WriteFails, ReferenceFails, Doubt,
         DoubtFails, VerifyFails, ClearFails, SweepFails, row
<1>2. \/ UNCHANGED <<phase, owner>>
      \/ Holds(w) /\ phase' \in {"open", "closed"} /\ owner' = 0
  BY DEF Write, Fails, WriteTemporary, RecheckClaim, Replace, Reference,
         PostCommitVerify, ClearReference, Discard, ListArtifacts, Unlink,
         FinishJob, DeferManifestRepair, WriteFails, ReferenceFails, Doubt,
         DoubtFails, VerifyFails, ClearFails, SweepFails, row, CanFinish
<1>3. ref' = ref \/ (Holds(w) /\ ref' \in {0, writer[w].claim})
  BY DEF Write, Fails, WriteTemporary, RecheckClaim, Replace, Reference,
         PostCommitVerify, ClearReference, Discard, ListArtifacts, Unlink,
         FinishJob, DeferManifestRepair, WriteFails, ReferenceFails, Doubt,
         DoubtFails, VerifyFails, ClearFails, SweepFails
<1>. QED  BY <1>1, <1>2, <1>3

\* Another thread never gains the claim from it.
LEMMA OthersHold ==
    ASSUME TypeOK, ClaimInv, NEW w \in Writers, Write(w) \/ Fails(w),
           NEW u \in Writers, u # w
    PROVE  /\ writer'[u] = writer[u]
           /\ Holds(u)' => Holds(u)
           /\ Holds(u) => ~Holds(w)
           /\ Holds(u) => ref' = ref
<1>1. writer'[u] = writer[u]
  BY WriterContinues DEF Continues
<1>2. Holds(u)' => Holds(u)
  BY <1>1, WriterRow DEF Holds
<1>3. Holds(u) => ~Holds(w)
  BY DEF Holds, ClaimInv, ThreadInv
<1>. QED  BY <1>1, <1>2, <1>3, WriterRow

LEMMA OthersReference ==
    ASSUME TypeOK, ClaimInv, ReferenceInv, NEW w \in Writers, Write(w) \/ Fails(w),
           NEW u \in Writers, u # w
    PROVE  ReferenceOf(u)'
<1>1. writer'[u] = writer[u] /\ ReferenceOf(u)
  BY OthersHold DEF ReferenceInv
<1>2. Holds(u)' => Holds(u) /\ ref' = ref
  BY OthersHold
<1>3. writer[u].pc # "idle" => writer[u].claim # 0 /\ writer[u].claim # writer[w].claim
  BY DEF ClaimInv, ThreadInv
<1>4. ref' \in {ref, 0, writer[w].claim}
  BY WriterRow
<1>. QED  BY <1>1, <1>2, <1>3, <1>4 DEF ReferenceOf

LEMMA WriterReference ==
    ASSUME TypeOK, ClaimInv, ReferenceInv, NEW w \in Writers, Write(w) \/ Fails(w)
    PROVE  ReferenceOf(w)'
<1>. USE DEF ReferenceOf
<1>0. /\ ReferenceOf(w) /\ writer[w] \in WriterState
      /\ writer[w].pc # "idle" => writer[w].claim # 0
  BY DEF ReferenceInv, TypeOK, ClaimInv, ThreadInv
<1>1. CASE WriteTemporary(w) \/ RecheckClaim(w) \/ Replace(w)
  BY <1>0, <1>1, GoFrame, LeaveFrame
     DEF WriteTemporary, RecheckClaim, Replace, At, row
<1>2. CASE Reference(w) \/ Doubt(w)
  BY <1>0, <1>2, GoFrame, LeaveFrame DEF Reference, Doubt, At
<1>3. CASE PostCommitVerify(w)
  BY <1>0, <1>3, GoFrame DEF PostCommitVerify, At, row, Holds
<1>4. CASE ClearReference(w)
  BY <1>0, <1>4, GoFrame DEF ClearReference, At
<1>5. CASE Discard(w) \/ DeferManifestRepair(w) \/ FinishJob(w)
  BY <1>0, <1>5, GoFrame, LeaveFrame
  DEF Discard, DeferManifestRepair, FinishJob, At
<1>6. CASE ListArtifacts(w) \/ SweepFails(w)
  <2>. DEFINE listed == [writer[w] EXCEPT !.pc = "unlink",
                             !.rest = files \ {Final(writer[w].claim)}]
              failed == [writer[w] EXCEPT !.pc = "defer", !.rest = {}]
  <2>1. /\ listed.claim = writer[w].claim /\ failed.claim = writer[w].claim
        /\ listed.pc = "unlink" /\ failed.pc = "defer"
    BY <1>0 DEF WriterState
  <2>2. /\ Becomes(w, failed) \/ (At(w, "sweep") /\ (Becomes(w, listed) \/ Go(w, "defer")))
        /\ UNCHANGED <<phase, owner, gen, ref>>
    BY <1>6 DEF ListArtifacts, SweepFails, row
  <2>. HIDE DEF listed, failed
  <2>. QED  BY <1>0, <2>1, <2>2, GoFrame, BecomesFrame DEF At, Holds
<1>7. CASE Unlink(w)
  <2>1. ASSUME NEW f \in writer[w].rest,
               Becomes(w, [writer[w] EXCEPT !.rest = @ \ {f}])
        PROVE  writer'[w].pc = "unlink" /\ writer'[w].claim = writer[w].claim
    BY <1>0, <1>7, <2>1, BecomesFrame DEF Unlink, At, WriterState
  <2>2. /\ writer'[w].pc \in {"unlink", "finish"} /\ writer[w].pc = "unlink"
        /\ writer'[w].claim = writer[w].claim
    BY <1>7, <2>1, GoFrame DEF Unlink, At
  <2>. QED  BY <1>0, <1>7, <2>2 DEF Unlink, row, Holds
<1>8. CASE \/ WriteFails(w) \/ ReferenceFails(w) \/ DoubtFails(w)
           \/ VerifyFails(w) \/ ClearFails(w)
  BY <1>0, <1>8, GoFrame
  DEF WriteFails, ReferenceFails, DoubtFails, VerifyFails, ClearFails
<1>. QED  BY <1>1, <1>2, <1>3, <1>4, <1>5, <1>6, <1>7, <1>8 DEF Write, Fails

LEMMA ReferenceStep ==
    ASSUME TypeOK, ClaimInv, ReferenceInv, Next
    PROVE  ReferenceInv'
<1>1. ASSUME NEW w \in Writers, Claim(w), NEW u \in Writers
       PROVE ReferenceOf(u)'
  <2>. DEFINE state == [writer[w] EXCEPT !.pc = "write", !.claim = gen + 1]
  <2>1. writer[w] \in WriterState /\ gen \in Nat /\ ref \in Nat /\ ref <= gen
    BY DEF TypeOK, ClaimInv, RowInv
  <2>2. state.claim = gen + 1 /\ state.pc = "write" /\ Becomes(w, state)
    BY <1>1, <2>1 DEF Claim, WriterState
  <2>3. CASE u = w
    <3>1. writer'[u].claim = gen + 1 /\ writer'[u].pc = "write"
      <4>. HIDE DEF state
      <4>. QED  BY <2>2, <2>3, BecomesFrame
    <3>. QED  BY <1>1, <2>1, <3>1 DEF Claim, ReferenceOf
  <2>4. CASE u # w
    <3>1. writer'[u] = writer[u]
      BY <2>2, <2>4, BecomesFrame
    <3>2. writer[u].claim \in Nat /\ writer[u].claim <= gen
      BY DEF TypeOK, WriterState, ClaimInv, ThreadInv
    <3>3. ~Holds(u)'
      BY <1>1, <2>1, <3>1, <3>2 DEF Claim, Holds
    <3>. QED  BY <1>1, <3>1, <3>3 DEF Claim, ReferenceInv, ReferenceOf
  <2>. QED  BY <2>3, <2>4
<1>2. ASSUME NEW w \in Writers, Write(w) \/ Fails(w), NEW u \in Writers
      PROVE ReferenceOf(u)'
  BY <1>2, WriterReference, OthersReference
<1>3. CASE Scan
  BY <1>3
  DEF Scan, ScanJob, ScanList, ScanCheck, ScanUnlink, row, ReferenceInv,
              ReferenceOf, Holds
<1>4. CASE TakeOver
  <2>1. \A u \in Writers : ~Holds(u)'
    BY <1>4 DEF TakeOver, Holds
  <2>. QED  BY <1>4, <2>1 DEF TakeOver, ReferenceInv, ReferenceOf
<1>5. CASE Reopen
  <2>1. \A u \in Writers : ~Holds(u)'
    BY <1>5 DEF Reopen, Holds
  <2>. QED  BY <1>5, <2>1 DEF Reopen, ReferenceInv, ReferenceOf
<1>6. CASE Crash
  BY <1>6 DEF Crash, IdleWriter, ReferenceInv, ReferenceOf
<1>. QED
  BY <1>1, <1>2, <1>3, <1>4, <1>5, <1>6 DEF Next, ReferenceInv

-----------------------------------------------------------------------------
(* What is kept, if no claim goes stale at a label of SweepLabels *)

NoSweepStall == Stalls \cap SweepLabels = {}

LEMMA Names ==
    ASSUME NEW g, NEW h
    PROVE  /\ Final(g) = Final(h) => g = h
           /\ Final(g) # Temporary(h)
           /\ Final(g).gen = g
BY DEF Final, Temporary

\* A writer removes files of its own, before it published, after it took the
\* reference back and when it cannot tell, and the files it listed.
LEMMA WriterFiles ==
    ASSUME TypeOK, NEW w \in Writers, Write(w) \/ Fails(w), NEW f \in files \ files'
    PROVE  \/ /\ f \in Own(w)
              /\ writer[w].pc \in {"write", "recheck", "replace", "reference", "discard"}
           \/ writer[w].pc = "unlink" /\ f \in writer[w].rest
           \/ /\ f = Final(writer[w].claim) /\ At(w, "doubt") /\ UNCHANGED <<phase, ref>>
              /\ ref # writer[w].claim \/ faults' = faults + 1
<1>1. CASE WriteTemporary(w) \/ RecheckClaim(w) \/ Replace(w)
  BY <1>1 DEF WriteTemporary, RecheckClaim, Replace, Own, At
<1>2. CASE Reference(w) \/ ReferenceFails(w) \/ Discard(w)
  BY <1>2 DEF Reference, ReferenceFails, Discard, Own, At
<1>2a. CASE Doubt(w) \/ DoubtFails(w)
  BY <1>2a DEF Doubt, DoubtFails, Named, Fault, row
<1>3. CASE WriteFails(w)
  BY <1>3 DEF WriteFails
<1>4. CASE Unlink(w)
  BY <1>4 DEF Unlink, At
<1>5. CASE \/ PostCommitVerify(w) \/ ClearReference(w) \/ ListArtifacts(w)
           \/ FinishJob(w) \/ DeferManifestRepair(w) \/ VerifyFails(w)
           \/ ClearFails(w) \/ SweepFails(w)
  BY <1>5 DEF PostCommitVerify, ClearReference, ListArtifacts, FinishJob,
              DeferManifestRepair, VerifyFails, ClearFails, SweepFails
<1>. QED  BY <1>1, <1>2, <1>2a, <1>3, <1>4, <1>5 DEF Write, Fails

LEMMA WriterSpares ==
    ASSUME Inv, NEW w \in Writers, Write(w) \/ Fails(w), Final(ref) \in files
    PROVE  Final(ref) \in files' \/ InDoubt(w)
<1>1. TypeOK /\ ReferenceOf(w) /\ KeepOf(w)
  BY DEF Inv, BaseInv, ReferenceInv, KeepInv
<1>2. SUFFICES ASSUME Final(ref) \notin files', ~InDoubt(w) PROVE FALSE
  OBVIOUS
<1>2a. writer[w].claim # ref \/ phase # "closed"
  BY DEF Inv, KeepInv, ClosedLeft
<1>3. CASE /\ Final(ref) \in Own(w)
           /\ writer[w].pc \in {"write", "recheck", "replace", "reference", "discard"}
  BY <1>1, <1>3, Names DEF ReferenceOf, Own
<1>4. CASE writer[w].pc = "unlink" /\ Final(ref) \in writer[w].rest
  BY <1>1, <1>4 DEF ReferenceOf, KeepOf, SweepLabels
<1>5. CASE /\ Final(ref) = Final(writer[w].claim) /\ At(w, "doubt")
           /\ ref # writer[w].claim \/ faults' = faults + 1
  BY <1>2, <1>2a, <1>5, Names DEF InDoubt
<1>. QED  BY <1>1, <1>2, <1>3, <1>4, <1>5, WriterFiles

\* The file of a thread that holds the claim is spared by every other thread.
LEMMA OthersKeep ==
    ASSUME Inv, NEW w \in Writers, Write(w) \/ Fails(w), NEW u \in Writers, u # w
    PROVE  KeepOf(u)'
<1>1. TypeOK /\ ClaimInv /\ KeepOf(u) /\ KeepOf(w)
  BY DEF Inv, BaseInv, KeepInv
<1>2. /\ writer'[u] = writer[u] /\ (Holds(u)' => Holds(u))
      /\ Holds(u) => ~Holds(w)
  BY <1>1, OthersHold
<1>3. Holds(u) => Holds(u)'
  BY <1>2, WriterRow DEF Holds
<1>4. Holds(u) /\ Final(writer[u].claim) \in files => Final(writer[u].claim) \in files'
  <2>1. SUFFICES ASSUME Holds(u), Final(writer[u].claim) \in files \ files' PROVE FALSE
    OBVIOUS
  <2>2. CASE Final(writer[u].claim) \in Own(w)
    <3>1. writer[u].claim = writer[w].claim
      BY <2>2, Names DEF Own
    <3>. QED  BY <1>1, <2>1, <3>1 DEF Holds, ClaimInv, ThreadInv
  <2>3. CASE writer[w].pc = "unlink"
    BY <1>1, <1>2, <2>1, <2>3 DEF KeepOf, SweepLabels
  <2>. QED  BY <1>1, <2>1, <2>2, <2>3, WriterFiles DEF Own
<1>. QED  BY <1>1, <1>2, <1>3, <1>4 DEF KeepOf

LEMMA WriterKeeps ==
    ASSUME Inv, NEW w \in Writers, Write(w) \/ Fails(w)
    PROVE  KeepOf(w)'
<1>. USE DEF KeepOf, SweepLabels
<1>0. KeepOf(w) /\ TypeOK /\ writer[w] \in WriterState
  BY DEF Inv, BaseInv, KeepInv, TypeOK
<1>1. CASE WriteTemporary(w) \/ RecheckClaim(w) \/ Replace(w)
  BY <1>0, <1>1, GoFrame, LeaveFrame
     DEF WriteTemporary, RecheckClaim, Replace, At, row
<1>2. CASE Reference(w) \/ Doubt(w)
  BY <1>0, <1>2, GoFrame, LeaveFrame DEF Reference, Doubt, At, Holds, row
<1>3. CASE PostCommitVerify(w)
  BY <1>0, <1>3, GoFrame DEF PostCommitVerify, At, row, Holds
<1>4. CASE ClearReference(w) \/ Discard(w) \/ DeferManifestRepair(w)
  BY <1>0, <1>4, GoFrame, LeaveFrame
     DEF ClearReference, Discard, DeferManifestRepair, IdleWriter
<1>5. CASE FinishJob(w)
  BY <1>0, <1>5, GoFrame, LeaveFrame DEF FinishJob, IdleWriter
<1>6. CASE ListArtifacts(w) \/ SweepFails(w)
  <2>. DEFINE listed == [writer[w] EXCEPT !.pc = "unlink",
                             !.rest = files \ {Final(writer[w].claim)}]
              failed == [writer[w] EXCEPT !.pc = "defer", !.rest = {}]
  <2>1. /\ listed.claim = writer[w].claim
        /\ listed.rest = files \ {Final(writer[w].claim)}
        /\ listed.pc = "unlink" /\ failed.pc = "defer"
    BY <1>0 DEF WriterState
  <2>2. \/ Becomes(w, failed) \/ Go(w, "defer")
        \/ At(w, "sweep") /\ Final(writer[w].claim) \in files /\ Becomes(w, listed)
    BY <1>6 DEF ListArtifacts, SweepFails
  <2>3. UNCHANGED <<phase, owner, gen, files>>
    BY <1>6 DEF ListArtifacts, SweepFails, row
  <2>. HIDE DEF listed, failed
  <2>. QED  BY <1>0, <2>1, <2>2, <2>3, GoFrame, BecomesFrame DEF At, Holds
<1>7. CASE Unlink(w)
  <2>1. ASSUME NEW f \in writer[w].rest, files' = files \ {f},
               Becomes(w, [writer[w] EXCEPT !.rest = @ \ {f}])
        PROVE  KeepOf(w)'
    <3>1. /\ writer'[w].pc = writer[w].pc /\ writer'[w].claim = writer[w].claim
          /\ writer'[w].rest = writer[w].rest \ {f}
      BY <1>0, <2>1, BecomesFrame DEF WriterState
    <3>. QED  BY <1>0, <1>7, <2>1, <3>1 DEF Unlink, At, row, Holds
  <2>. QED  BY <1>0, <1>7, <2>1, GoFrame DEF Unlink, At, row, Holds
<1>8. CASE \/ WriteFails(w) \/ ReferenceFails(w) \/ DoubtFails(w)
           \/ VerifyFails(w) \/ ClearFails(w)
  BY <1>0, <1>8, GoFrame
  DEF WriteFails, ReferenceFails, DoubtFails, VerifyFails, ClearFails
<1>. QED  BY <1>1, <1>2, <1>3, <1>4, <1>5, <1>6, <1>7, <1>8 DEF Write, Fails

\* The orphan scan, too, removes only what no row names.
LEMMA ScanSpares ==
    ASSUME Inv, Scan, NEW g, g = ref \/ (owner # 0 /\ g = owner), Final(g) \in files
    PROVE  Final(g) \in files'
BY DEF Inv, KeepInv, ScanKeeps, Scan, ScanJob, ScanList, ScanCheck, ScanUnlink,
       Scanning

LEMMA ScanKeepsStep ==
    ASSUME Inv, Next
    PROVE  ScanKeeps'
<1>. USE DEF ScanKeeps
<1>0. /\ TypeOK /\ RowInv /\ ScanInv /\ ScanKeeps /\ gen \in Nat
      /\ scan.name.gen \in Nat
  BY DEF Inv, BaseInv, KeepInv, ClaimInv, TypeOK, ScanState, File
<1>1. ASSUME NEW w \in Writers, Claim(w) PROVE ScanKeeps'
  BY <1>0, <1>1, Names DEF Claim, ScanInv
<1>2. ASSUME NEW w \in Writers, Write(w) \/ Fails(w) PROVE ScanKeeps'
  <2>1. /\ ref' \in {ref, 0} \/ (Holds(w) /\ ref' = owner /\ owner # 0)
        /\ owner' \in {owner, 0} /\ scan' = scan
    BY <1>2, WriterRow DEF Holds
  <2>. QED  BY <1>0, <2>1, Names
<1>3. CASE Scan
  <2>1. CASE ScanJob \/ ScanList \/ ScanUnlink
    BY <1>0, <2>1 DEF ScanJob, ScanList, ScanUnlink, ScanState, TypeOK
  <2>2. CASE ScanCheck
    <3>1. CASE scan' = IdleScan
      BY <3>1 DEF IdleScan
    <3>2. ASSUME NEW f \in scan.rest, Scannable, Unreferenced(f),
                 scan' = [scan EXCEPT !.pc = "unlink", !.name = f]
          PROVE  ScanKeeps'
      <4>1. scan'.name = f /\ f.gen \in 1..gen
        BY <1>0, <3>2 DEF TypeOK, ScanState, ScanInv
      <4>2. owner' = 0 /\ ref' = ref
        BY <1>0, <2>2, <3>2 DEF Scannable, RowInv, ScanCheck, row
      <4>. QED  BY <1>0, <3>2, <4>1, <4>2 DEF Unreferenced
    <3>3. ASSUME NEW f \in scan.rest, scan' = [scan EXCEPT !.rest = @ \ {f}]
          PROVE  ScanKeeps'
      BY <1>0, <2>2, <3>3 DEF TypeOK, ScanState, ScanCheck, Scanning
    <3>. QED  BY <2>2, <3>1, <3>2, <3>3 DEF ScanCheck
  <2>. QED  BY <1>3, <2>1, <2>2 DEF Scan
<1>4. CASE TakeOver \/ Reopen
  BY <1>0, <1>4 DEF TakeOver, Reopen
<1>5. CASE Crash
  BY <1>5 DEF Crash, IdleScan
<1>. QED  BY <1>1, <1>2, <1>3, <1>4, <1>5 DEF Next

LEMMA ClosedLeftStep ==
    ASSUME Inv, Next
    PROVE  ClosedLeft'
<1>. USE DEF ClosedLeft
<1>0. TypeOK /\ ClaimInv /\ ReferenceInv /\ ClosedLeft /\ ClosedHasManifest
  BY DEF Inv, BaseInv, KeepInv
<1>1. ASSUME NEW w \in Writers, Claim(w) PROVE ClosedLeft'
  BY <1>1 DEF Claim
<1>2. ASSUME NEW w \in Writers, Write(w) \/ Fails(w) PROVE ClosedLeft'
  <2>1. Continues(w)
    BY <1>0, <1>2, WriterContinues
  <2>2. CASE phase = "closed"
    <3>1. ref' = ref /\ ref # 0
      BY <1>0, <1>2, <2>2, WriterRow DEF Holds, ClosedHasManifest
    <3>. QED  BY <1>0, <2>1, <2>2, <3>1 DEF Continues
  <2>3. CASE phase # "closed" /\ phase' = "closed"
    <3>1. FinishJob(w) /\ CanFinish(w) /\ Leave(w)
      BY <1>2, <2>3
         DEF Write, Fails, WriteTemporary, RecheckClaim, Replace, Reference,
             PostCommitVerify, ClearReference, Discard, ListArtifacts, Unlink,
             FinishJob, DeferManifestRepair, WriteFails, ReferenceFails, Doubt,
             DoubtFails, VerifyFails, ClearFails, SweepFails, row
    <3>2. ref = writer[w].claim /\ ref # 0 /\ ref' = ref
      BY <1>0, <3>1 DEF FinishJob, CanFinish, At, ReferenceInv, ReferenceOf
    <3>3. \A u \in Writers : u # w => writer[u].claim # ref
      BY <1>0, <3>2 DEF ClaimInv, ThreadInv
    <3>. QED  BY <1>0, <3>1, <3>2, <3>3, LeaveFrame
  <2>. QED  BY <2>2, <2>3
<1>3. CASE Scan
  BY <1>0, <1>3 DEF Scan, ScanJob, ScanList, ScanCheck, ScanUnlink, row
<1>4. CASE TakeOver \/ Reopen
  BY <1>4 DEF TakeOver, Reopen
<1>5. CASE Crash
  BY <1>0, <1>5 DEF Crash, IdleWriter, row, ClosedHasManifest
<1>. QED  BY <1>1, <1>2, <1>3, <1>4, <1>5 DEF Next

LEMMA KeepStep ==
    ASSUME Inv, NoSweepStall, Next
    PROVE  KeepInv'
<1>. SUFFICES (\A u \in Writers : KeepOf(u)') /\ ClosedHasManifest'
  BY ScanKeepsStep, ClosedLeftStep DEF KeepInv
<1>0. /\ TypeOK /\ RowInv /\ ClosedHasManifest
      /\ \A u \in Writers : KeepOf(u) /\ ReferenceOf(u)
  BY DEF Inv, BaseInv, ClaimInv, KeepInv, ReferenceInv
<1>1. ASSUME NEW w \in Writers, Claim(w)
      PROVE  (\A u \in Writers : KeepOf(u)') /\ ClosedHasManifest'
  <2>1. \A u \in Writers : writer[u].pc \notin SweepLabels
    BY <1>0, <1>1 DEF Claim, KeepOf, Holds
  <2>. DEFINE state == [writer[w] EXCEPT !.pc = "write", !.claim = gen + 1]
  <2>2. writer[w] \in WriterState /\ gen \in Nat
    BY <1>0 DEF TypeOK
  <2>3. state.pc = "write" /\ Becomes(w, state)
    BY <1>1, <2>2 DEF Claim, WriterState
  <2>4. /\ writer'[w].pc = "write"
        /\ \A u \in Writers : u # w => writer'[u] = writer[u]
    <3>. HIDE DEF state
    <3>. QED  BY <1>0, <2>3, BecomesFrame
  <2>5. ASSUME NEW u \in Writers, u # w PROVE ~Holds(u)'
    <3>1. writer[u].claim \in Nat /\ writer[u].claim <= gen
      BY DEF TypeOK, WriterState, Inv, BaseInv, ClaimInv, ThreadInv
    <3>. QED  BY <1>1, <2>2, <2>4, <2>5, <3>1 DEF Claim, Holds
  <2>. QED  BY <1>1, <2>1, <2>4, <2>5 DEF KeepOf, SweepLabels, Claim, ClosedHasManifest
<1>2. ASSUME NEW w \in Writers, Write(w) \/ Fails(w)
      PROVE  (\A u \in Writers : KeepOf(u)') /\ ClosedHasManifest'
  <2>1. \A u \in Writers : KeepOf(u)'
    BY <1>2, WriterKeeps, OthersKeep
  <2>2. CASE phase = "closed"
    <3>1. ref' = ref
      BY <1>2, <2>2, WriterRow DEF Holds
    <3>. QED
      BY <1>0, <1>2, <2>1, <2>2, <3>1, WriterSpares DEF ClosedHasManifest, InDoubt
  <2>3. CASE phase # "closed" /\ phase' = "closed"
    <3>1. FinishJob(w) /\ CanFinish(w)
      BY <1>2, <2>3
         DEF Write, Fails, WriteTemporary, RecheckClaim, Replace, Reference,
             PostCommitVerify, ClearReference, Discard, ListArtifacts, Unlink,
             FinishJob, DeferManifestRepair, WriteFails, ReferenceFails, Doubt,
             DoubtFails, VerifyFails, ClearFails, SweepFails, row
    <3>. QED  BY <1>0, <2>1, <3>1
             
              DEF FinishJob, CanFinish, At, KeepOf, ReferenceOf,
                  ClosedHasManifest
  <2>. QED  BY <2>1, <2>2, <2>3 DEF ClosedHasManifest
<1>3. CASE Scan
  <2>1. UNCHANGED <<phase, owner, gen, ref, writer>>
    BY <1>3 DEF Scan, ScanJob, ScanList, ScanCheck, ScanUnlink, row
  <2>2. ASSUME NEW u \in Writers PROVE KeepOf(u)'
    <3>1. Holds(u) /\ Final(writer[u].claim) \in files
             => Final(writer[u].claim) \in files'
      BY <1>3, ScanSpares DEF Holds
    <3>. QED  BY <1>0, <2>1, <3>1 DEF KeepOf, Holds
  <2>3. ClosedHasManifest'
    BY <1>0, <1>3, <2>1, ScanSpares DEF ClosedHasManifest
  <2>. QED  BY <2>2, <2>3
<1>4. CASE TakeOver
  <2>1. \A u \in Writers : ~Holds(u)' /\ writer[u].pc \notin SweepLabels
    BY <1>0, <1>4 DEF TakeOver, Holds, KeepOf, NoSweepStall
  <2>. QED  BY <1>0, <1>4, <2>1 DEF TakeOver, KeepOf, SweepLabels, ClosedHasManifest
<1>5. CASE Reopen
  <2>1. \A u \in Writers : ~Holds(u)' /\ writer[u].pc \notin SweepLabels
    BY <1>0, <1>5 DEF Reopen, Holds, KeepOf
  <2>. QED  BY <1>0, <1>5, <2>1 DEF Reopen, KeepOf, SweepLabels, ClosedHasManifest
<1>6. CASE Crash
  BY <1>0, <1>6
  DEF Crash, IdleWriter, KeepOf, SweepLabels, ClosedHasManifest, row
<1>. QED
  BY <1>1, <1>2, <1>3, <1>4, <1>5, <1>6 DEF Next

-----------------------------------------------------------------------------
(* The theorems *)

LEMMA InitBase == ASSUME Init, BoundsAssumption PROVE BaseInv
BY IdleType DEF Init, BaseInv, TypeOK, ClaimInv, RowInv, ThreadInv, ScanInv,
                ReferenceInv, ReferenceOf, IdleWriter, IdleScan, Final

LEMMA InitKeep == ASSUME Init PROVE KeepInv
BY DEF Init, KeepInv, KeepOf, ScanKeeps, ClosedHasManifest, ClosedLeft, SweepLabels,
       IdleWriter, IdleScan

LEMMA BaseStep == ASSUME BaseInv, [Next]_vars PROVE BaseInv'
<1>1. CASE Next
  BY <1>1, BoundsAssumption, TypeStep, ClaimStep, ReferenceStep DEF BaseInv
<1>2. CASE UNCHANGED vars
  BY <1>2 DEF vars, row, BaseInv, TypeOK, ClaimInv, RowInv, ThreadInv, ScanInv,
              ReferenceInv, ReferenceOf, Holds
<1>. QED  BY <1>1, <1>2

\* Wherever claims go stale, the states are typed, one thread holds the claim
\* and the row names a file of a claim that was granted.
THEOREM Typing == Spec => []BaseInv
<1>1. Init => BaseInv
  BY InitBase, BoundsAssumption
<1>2. BaseInv /\ [Next]_vars => BaseInv'
  BY BaseStep
<1>. QED  BY <1>1, <1>2, PTL DEF Spec

THEOREM TypeCorrect == Spec => []TypeOK
<1>1. BaseInv => TypeOK
  BY DEF BaseInv
<1>. QED  BY <1>1, Typing, PTL

\* Wherever claims go stale, the row keeps to the lease of JobLease.
THEOREM KeepsLease == Spec => LeaseSpec
<1>1. Init => Lease!Init
  BY DEF Init, Lease!Init
<1>2. BaseInv /\ [Next]_vars => [Lease!Next]_<<phase, owner, gen>>
  <2>. SUFFICES ASSUME BaseInv, [Next]_vars
                PROVE  Lease!Next \/ UNCHANGED <<phase, owner, gen>>
    OBVIOUS
  <2>. USE DEF Lease!Next
  <2>0. RowInv
    BY DEF BaseInv, ClaimInv
  <2>1. ASSUME NEW w \in Writers, Claim(w) PROVE Lease!Next
    BY <2>1 DEF Claim, Lease!Claim
  <2>2. ASSUME NEW w \in Writers, Write(w) \/ Fails(w)
        PROVE  Lease!Next \/ UNCHANGED <<phase, owner, gen>>
    BY <2>2, WriterRow DEF Holds, Lease!Close, Lease!Defer
  <2>3. CASE Scan
    BY <2>3 DEF Scan, ScanJob, ScanList, ScanCheck, ScanUnlink, row
  <2>4. CASE TakeOver
    BY <2>4 DEF TakeOver, Lease!TakeOver
  <2>5. CASE Reopen
    BY <2>5 DEF Reopen, Lease!Reopen
  <2>6. CASE Crash \/ UNCHANGED vars
    BY <2>6 DEF Crash, vars, row
  <2>. QED  BY <2>1, <2>2, <2>3, <2>4, <2>5, <2>6 DEF Next
<1>. QED
  BY <1>1, <1>2, Typing, PTL DEF Spec, LeaseSpec, Lease!Spec, Lease!vars

\* Wherever claims go stale, the row never goes back to an older manifest.
THEOREM ReferencesAdvance == Spec => ReferenceAdvances
<1>1. BaseInv /\ [Next]_vars => [ref' # 0 => ref' >= ref]_vars
  <2>. SUFFICES ASSUME BaseInv, Next, ref' # 0 PROVE ref' >= ref
    OBVIOUS
  <2>1. ref \in Nat /\ gen \in Nat /\ ref <= gen
    BY DEF BaseInv, TypeOK, ClaimInv, RowInv
  <2>2. CASE UNCHANGED ref
    BY <2>1, <2>2
  <2>3. ASSUME NEW w \in Writers, Write(w) \/ Fails(w), ref' # ref
        PROVE  ref' = gen
    BY <2>3, WriterRow DEF Holds
  <2>. QED
    BY <2>1, <2>2, <2>3
      
       DEF Next, Claim, Scan, ScanJob, ScanList, ScanCheck, ScanUnlink,
           TakeOver,
           Reopen, Crash
<1>. QED  BY <1>1, Typing, PTL DEF Spec, ReferenceAdvances

\* If no claim goes stale between a publication and the end of its sweep, what
\* is about to be removed is never named.
THEOREM Keeping == ASSUME NoSweepStall PROVE Spec => []Inv
<1>1. Init => Inv
  BY InitBase, InitKeep, BoundsAssumption DEF Inv
<1>2. Inv /\ [Next]_vars => Inv'
  <2>. SUFFICES ASSUME Inv, [Next]_vars PROVE KeepInv'
    BY BaseStep DEF Inv
  <2>1. CASE Next
    BY <2>1, NoSweepStall, KeepStep
  <2>2. CASE UNCHANGED vars
    BY <2>2
    DEF vars, row, Inv, KeepInv, KeepOf, ScanKeeps, ClosedHasManifest, ClosedLeft,
        Holds
  <2>. QED  BY <2>1, <2>2
<1>. QED  BY <1>1, <1>2, PTL DEF Spec

\* Then a closed job has its manifest,
THEOREM ClosedJobsHaveManifests ==
    ASSUME NoSweepStall PROVE Spec => []ClosedHasManifest
<1>1. Inv => ClosedHasManifest
  BY DEF Inv, KeepInv
<1>2. Spec => []Inv
  BY Keeping
<1>. QED  BY <1>1, <1>2, PTL

\* no step removes the file that the row names, but the one of a writer that
\* cannot tell whether it does,
THEOREM ReferencedFilesAreKept == ASSUME NoSweepStall PROVE Spec => ReferencedKept
<1>1. Inv /\ [Next]_vars =>
         [ref' = ref /\ Final(ref) \in files =>
             Final(ref) \in files' \/ \E w \in Writers : InDoubt(w)]_vars
  <2>. SUFFICES ASSUME Inv, Next, Final(ref) \in files
                PROVE  Final(ref) \in files' \/ \E w \in Writers : InDoubt(w)
    OBVIOUS
  <2>. QED
    BY WriterSpares, ScanSpares DEF Next, Claim, TakeOver, Reopen, Crash
<1>2. Spec => []Inv
  BY Keeping
<1>. QED  BY <1>1, <1>2, PTL DEF Spec, ReferencedKept

\* and a row comes to name only a file that is there.
THEOREM ReferencesAreDurable ==
    ASSUME NoSweepStall PROVE Spec => DurableBeforeReferenced
<1>1. Inv /\ [Next]_vars =>
         [ref' # ref /\ ref' # 0 => Final(ref') \in files']_vars
  <2>. SUFFICES ASSUME Inv, Next, ref' # ref, ref' # 0 PROVE Final(ref') \in files'
    OBVIOUS
  <2>1. PICK w \in Writers : Reference(w) \/ ReferenceFails(w)
    BY
    DEF Next, Claim, Scan, ScanJob, ScanList, ScanCheck, ScanUnlink, TakeOver,
           Reopen, Crash, Write, Fails, WriteTemporary, RecheckClaim, Replace,
           PostCommitVerify, ClearReference, Discard, ListArtifacts, Unlink,
           FinishJob, DeferManifestRepair, WriteFails, Doubt, DoubtFails,
           VerifyFails, ClearFails, SweepFails
  <2>2. KeepOf(w)
    BY DEF Inv, KeepInv
  <2>. QED  BY <2>1, <2>2 DEF Reference, ReferenceFails, At, KeepOf
<1>2. Spec => []Inv
  BY Keeping
<1>. QED  BY <1>1, <1>2, PTL DEF Spec, DurableBeforeReferenced

-----------------------------------------------------------------------------
(* DatasetSnapshot: contents *)

\* The images that a set of rows, a directory or a preview speaks of.
LEMMA ContentsMember ==
    ASSUME NEW f \in Contents
    PROVE  /\ DOMAIN f \subseteq Images
           /\ f = [i \in DOMAIN f |-> f[i]]
           /\ \A i \in DOMAIN f : f[i] \in Content
  BY DEF Contents

LEMMA IsContents ==
    ASSUME NEW I \in SUBSET Images, NEW f \in [I -> Content]
    PROVE  f \in Contents
  BY DEF Contents

LEMMA NothingIs == Nothing \in Contents /\ DOMAIN Nothing = {}
  <1>1. Nothing \in [{} -> Content] /\ DOMAIN Nothing = {}
    BY DEF Nothing
  <1> QED BY <1>1, IsContents

\* With(f, g) is f where it is defined, and g elsewhere.
LEMMA Joined ==
    ASSUME NEW f \in Contents, NEW g \in Contents
    PROVE  /\ With(f, g) \in Contents
           /\ DOMAIN With(f, g) = DOMAIN f \cup DOMAIN g
           /\ \A i \in DOMAIN f : With(f, g)[i] = f[i]
           /\ \A i \in DOMAIN g \ DOMAIN f : With(f, g)[i] = g[i]
  <1>1. With(f, g) = [i \in DOMAIN f \cup DOMAIN g |->
                     IF i \in DOMAIN f THEN f[i] ELSE g[i]]
    BY DEF With
  <1>2. /\ DOMAIN f \subseteq Images /\ \A i \in DOMAIN f : f[i] \in Content
        /\ DOMAIN g \subseteq Images /\ \A i \in DOMAIN g : g[i] \in Content
    BY ContentsMember
  <1>3. With(f, g) \in [DOMAIN f \cup DOMAIN g -> Content]
    BY <1>1, <1>2
  <1> QED BY <1>1, <1>2, <1>3, IsContents

LEMMA JoinedWithNothing ==
    ASSUME NEW g \in Contents
    PROVE  With(Nothing, g) = g /\ With(g, g) = g
  <1>1. DOMAIN Nothing = {} /\ Nothing \in Contents
    BY NothingIs
  <1>2. g = [i \in DOMAIN g |-> g[i]]
    BY ContentsMember
  <1>3. With(Nothing, g) = [i \in DOMAIN g |-> g[i]]
    BY <1>1 DEF With
  <1>4. With(g, g) = [i \in DOMAIN g |-> g[i]]
    BY DEF With
  <1> QED BY <1>2, <1>3, <1>4

\* Two contents that agree are the same.
LEMMA SameContents ==
    ASSUME NEW f \in Contents, NEW g \in Contents, DOMAIN f = DOMAIN g,
           \A i \in DOMAIN g : f[i] = g[i]
    PROVE  f = g
  BY ContentsMember

\* An image that is left has a first one among its like.
LEMMA FirstIsLeft ==
    ASSUME NEW s \in Snapshots, Left(s) # {}, Left(s) \subseteq Images
    PROVE  FirstLeft(s) \in Left(s)
  <1>1. Left(s) \subseteq Nat
    BY ImagesAssumption
  <1>2. PICK i \in Left(s) : \A j \in Left(s) : i <= j
    <2>1. PICK i \in Left(s) : \A j \in Left(s) : ~(<<j, i>> \in OpToRel(<, Nat))
      BY <1>1, NatLessThanWellFounded, WFMin, Zenon
    <2>2. \A j \in Left(s) : ~(j < i)
      BY <1>1, <2>1, Zenon DEF OpToRel
    <2> QED BY <1>1, <2>2
  <1> QED BY <1>2 DEF FirstLeft

-----------------------------------------------------------------------------
(* what a step makes of a record *)

LEMMA GoesTo ==
    ASSUME SnapshotTypeOK, NEW s \in Snapshots,
           NEW pc \in TaskLabel \cup {"none"}, Goto(s, pc)
    PROVE  /\ task' \in [Snapshots -> Task]
           /\ task'[s].pc = pc /\ task'[s].end = task[s].end
           /\ \A t \in Snapshots \ {s} : task'[t] = task[t]
  <1>1. task \in [Snapshots -> Task] /\ task[s] \in Task
    BY DEF SnapshotTypeOK
  <1> DEFINE k == [task[s] EXCEPT !.pc = pc]
  <1>2. task' = [task EXCEPT ![s] = k]
    BY DEF Goto
  <1>3. k \in Task /\ k.pc = pc /\ k.end = task[s].end
    BY <1>1 DEF Task
  <1> HIDE DEF k
  <1> QED BY <1>1, <1>2, <1>3

LEMMA EndsTaskAs ==
    ASSUME SnapshotTypeOK, NEW s \in Snapshots, NEW pc \in TaskLabel,
           NEW end \in {"failed", "canceled", "db_finalization_pending"},
           EndAs(s, pc, end)
    PROVE  /\ task' \in [Snapshots -> Task]
           /\ task'[s].pc = pc /\ task'[s].end = end
           /\ \A t \in Snapshots \ {s} : task'[t] = task[t]
  <1>1. task \in [Snapshots -> Task] /\ task[s] \in Task
    BY DEF SnapshotTypeOK
  <1> DEFINE k == [task[s] EXCEPT !.pc = pc, !.end = end]
  <1>2. task' = [task EXCEPT ![s] = k]
    BY DEF EndAs
  <1>3. k \in Task /\ k.pc = pc /\ k.end = end
    BY <1>1 DEF Task
  <1> HIDE DEF k
  <1> QED BY <1>1, <1>2, <1>3

\* A row gets a status, or the status and no digests any more.
LEMMA GetsStatus ==
    ASSUME NEW r \in Row, NEW status \in Status
    PROVE  LET new == [r EXCEPT !.status = status] IN
           /\ new \in Row /\ new.status = status /\ new.items = r.items
           /\ new.hash = r.hash /\ new.issues = r.issues /\ new.cancel = r.cancel
  BY DEF Row

\* A flush writes the columns that differ from what was loaded.
LEMMA IsFlushed ==
    ASSUME NEW r \in Row, NEW loaded \in Loaded, NEW status \in Status,
           NEW hash \in Contents
    PROVE  LET new == Flushed(r, loaded, status, hash) IN
           /\ new \in Row /\ new.hash \in {r.hash, hash}
           /\ new.status = IF loaded.status = status THEN r.status ELSE status
           /\ new.items = r.items /\ new.issues = r.issues
  <1> DEFINE st == IF loaded.status = status THEN r.status ELSE status
             ha == IF loaded.hash = hash THEN r.hash ELSE hash
  <1>1. r.status \in Status /\ r.hash \in Contents
    BY DEF Row
  <1>2. st \in Status /\ ha \in Contents /\ ha \in {r.hash, hash}
    BY <1>1
  <1>3. Flushed(r, loaded, status, hash) = [r EXCEPT !.status = st, !.hash = ha]
    BY DEF Flushed
  <1>4. st = IF loaded.status = status THEN r.status ELSE status
    OBVIOUS
  <1> HIDE DEF st, ha
  <1> QED BY <1>2, <1>3, <1>4 DEF Row

LEMMA IsFinished ==
    ASSUME NEW r \in Row, NEW loaded \in Loaded, NEW status \in Status
    PROVE  LET new == Finished(r, loaded, status) IN
           /\ new \in Row /\ new.hash \in {r.hash, Nothing}
           /\ new.status = IF loaded.status = status THEN r.status ELSE status
           /\ new.items = r.items /\ new.issues = r.issues
  BY NothingIs, IsFlushed DEF Finished

LEMMA IsLoaded ==
    ASSUME NEW r \in Row
    PROVE  Load(r) \in Loaded /\ Load(r).status = r.status
  BY DEF Row, Load, Loaded

LEMMA UnreadIs == Unread \in Loaded
  BY NothingIs DEF Unread, Loaded, Status

LEMMA IsRestored ==
    ASSUME SnapshotTypeOK, NEW s \in Snapshots, NEW loaded \in Loaded
    PROVE  LET new == Restored(s, loaded) IN
           /\ new \in Row
           /\ new.status = IF loaded.status = "completed"
                           THEN snapshot[s].status ELSE "completed"
           /\ new.items = With(snapshot[s].items, dir[s].manifest)
           /\ new.hash \in {snapshot[s].hash, dir[s].manifest}
           /\ new.issues = snapshot[s].issues \cup shown[s].issues
  <1> DEFINE f == Flushed(snapshot[s], loaded, "completed", dir[s].manifest)
             it == With(f.items, dir[s].manifest)
             is == f.issues \cup shown[s].issues
  <1>1. /\ snapshot[s] \in Row /\ dir[s].manifest \in Contents
        /\ "completed" \in Status /\ shown[s].issues \in SUBSET Images
    BY DEF SnapshotTypeOK, Dir, Preview, Status
  <1>2. /\ f \in Row /\ f.hash \in {snapshot[s].hash, dir[s].manifest}
        /\ f.status = IF loaded.status = "completed"
                      THEN snapshot[s].status ELSE "completed"
        /\ f.items = snapshot[s].items /\ f.issues = snapshot[s].issues
    BY <1>1, IsFlushed
  <1>3. Restored(s, loaded) = [f EXCEPT !.items = it, !.issues = is]
    BY DEF Restored
  <1> HIDE DEF f
  <1>4. it \in Contents /\ is \in SUBSET Images
    BY <1>1, <1>2, Joined DEF Row
  <1>5. /\ it = With(snapshot[s].items, dir[s].manifest)
        /\ is = snapshot[s].issues \cup shown[s].issues
    BY <1>2
  <1> HIDE DEF it, is
  <1>6. /\ Restored(s, loaded) \in Row
        /\ Restored(s, loaded).status = f.status
        /\ Restored(s, loaded).hash = f.hash
        /\ Restored(s, loaded).items = it /\ Restored(s, loaded).issues = is
    BY <1>2, <1>3, <1>4 DEF Row
  <1> QED BY <1>2, <1>5, <1>6

\* The rows of one snapshot change.
LEMMA OneRow ==
    ASSUME SnapshotTypeOK, NEW s \in Snapshots, NEW r \in Row,
           snapshot' = [snapshot EXCEPT ![s] = r]
    PROVE  /\ snapshot' \in [Snapshots -> Row] /\ snapshot'[s] = r
           /\ \A t \in Snapshots \ {s} : snapshot'[t] = snapshot[t]
  BY DEF SnapshotTypeOK

LEMMA OneDir ==
    ASSUME SnapshotTypeOK, NEW s \in Snapshots, NEW d \in Dir,
           dir' = [dir EXCEPT ![s] = d]
    PROVE  /\ dir' \in [Snapshots -> Dir] /\ dir'[s] = d
           /\ \A t \in Snapshots \ {s} : dir'[t] = dir[t]
  BY DEF SnapshotTypeOK

LEMMA InsertMakes ==
    ASSUME SnapshotTypeOK, NEW s \in Snapshots, Insert(s)
    PROVE  /\ snapshot' \in [Snapshots -> Row] /\ dir' \in [Snapshots -> Dir]
           /\ snapshot'[s].status = "creating"
           /\ snapshot'[s].items = snapshot[s].items
           /\ snapshot'[s].issues = snapshot[s].issues
           /\ snapshot'[s].hash = snapshot[s].hash
           /\ dir'[s].place = "creating" /\ dir'[s].files = dir[s].files
           /\ dir'[s].manifest = dir[s].manifest
           /\ \A t \in Snapshots \ {s} : /\ snapshot'[t] = snapshot[t]
                                         /\ dir'[t] = dir[t]
  <1> DEFINE r == [snapshot[s] EXCEPT !.status = "creating"]
             d == [dir[s] EXCEPT !.place = "creating"]
  <1>1. snapshot[s] \in Row /\ dir[s] \in Dir
    BY DEF SnapshotTypeOK
  <1>2. snapshot' = [snapshot EXCEPT ![s] = r] /\ dir' = [dir EXCEPT ![s] = d]
    BY DEF Insert
  <1>3. /\ r \in Row /\ r.status = "creating" /\ r.items = snapshot[s].items
        /\ r.issues = snapshot[s].issues /\ r.hash = snapshot[s].hash
    BY <1>1, GetsStatus DEF Status, Open
  <1>4. /\ d \in Dir /\ d.place = "creating" /\ d.files = dir[s].files
        /\ d.manifest = dir[s].manifest
    BY <1>1 DEF Dir
  <1> HIDE DEF r, d
  <1> QED BY <1>2, <1>3, <1>4, OneRow, OneDir

\* What the copy of the first image adds.
LEMMA CopyMakes ==
    ASSUME SnapshotTypeOK, NEW s \in Snapshots, CopyImage(s)
    PROVE  /\ dir' \in [Snapshots -> Dir]
           /\ dir'[s].place = dir[s].place /\ dir'[s].manifest = dir[s].manifest
           /\ \E i \in DOMAIN shown[s].content \ DOMAIN dir[s].files :
                 /\ DOMAIN dir'[s].files = DOMAIN dir[s].files \cup {i}
                 /\ \A j \in DOMAIN dir[s].files : dir'[s].files[j] = dir[s].files[j]
                 /\ dir'[s].files[i] = shown[s].content[i]
           /\ \A t \in Snapshots \ {s} : dir'[t] = dir[t]
  <1>1. /\ dir[s] \in Dir /\ dir[s].files \in Contents
        /\ shown[s].content \in Contents /\ image \in [Images -> Image]
    BY DEF SnapshotTypeOK, Dir, Preview
  <1>2. PICK i \in DOMAIN shown[s].content \ DOMAIN dir[s].files :
            i = FirstLeft(s)
    BY <1>1, ContentsMember, FirstIsLeft DEF CopyImage, Left
  <1> DEFINE n == With(dir[s].files, CopyOf(s, i))
             d == [dir[s] EXCEPT !.files = n]
  <1>3. /\ i \in Images /\ shown[s].content[i] \in Content
    BY <1>1, <1>2, ContentsMember
  <1>4. /\ image[i].bytes = shown[s].content[i].bytes
        /\ CopyOf(s, i)[i] = [bytes |-> image[i].bytes,
                              caption |-> shown[s].content[i].caption]
        /\ DOMAIN CopyOf(s, i) = {i}
    BY <1>2 DEF CopyImage, CopyIsGood, CopyOf
  <1>5. CopyOf(s, i)[i] = shown[s].content[i]
    BY <1>3, <1>4 DEF Content
  <1>6. CopyOf(s, i) \in [{i} -> Content]
    BY <1>3, <1>4, <1>5 DEF CopyOf
  <1>7. CopyOf(s, i) \in Contents
    BY <1>3, <1>6, IsContents
  <1>8. dir' = [dir EXCEPT ![s] = d]
    BY <1>2 DEF CopyImage
  <1>9. /\ n \in Contents /\ DOMAIN n = DOMAIN dir[s].files \cup {i}
        /\ \A j \in DOMAIN dir[s].files : n[j] = dir[s].files[j]
        /\ n[i] = CopyOf(s, i)[i]
    <2>1. i \in DOMAIN CopyOf(s, i) \ DOMAIN dir[s].files
      BY <1>2, <1>4
    <2>2. /\ n \in Contents
          /\ DOMAIN n = DOMAIN dir[s].files \cup DOMAIN CopyOf(s, i)
          /\ \A j \in DOMAIN dir[s].files : n[j] = dir[s].files[j]
          /\ \A j \in DOMAIN CopyOf(s, i) \ DOMAIN dir[s].files :
                n[j] = CopyOf(s, i)[j]
      BY <1>1, <1>7, Joined, Zenon
    <2> HIDE DEF n
    <2> QED BY <1>4, <2>1, <2>2
  <1> HIDE DEF n
  <1>10. /\ d \in Dir /\ d.place = dir[s].place /\ d.manifest = dir[s].manifest
         /\ d.files = n
    BY <1>1, <1>9 DEF Dir
  <1> HIDE DEF d
  <1>11. dir' \in [Snapshots -> Dir] /\ dir'[s] = d
         /\ \A t \in Snapshots \ {s} : dir'[t] = dir[t]
    BY <1>8, <1>10, OneDir
  <1> QED BY <1>2, <1>5, <1>9, <1>10, <1>11

LEMMA ManifestMakes ==
    ASSUME SnapshotTypeOK, NEW s \in Snapshots, WriteManifest(s)
    PROVE  /\ dir' \in [Snapshots -> Dir]
           /\ dir'[s].place = dir[s].place /\ dir'[s].manifest = dir[s].files
           /\ dir'[s].files = dir[s].files
           /\ \A t \in Snapshots \ {s} : dir'[t] = dir[t]
  <1> DEFINE d == [dir[s] EXCEPT !.manifest = dir[s].files]
  <1>1. dir[s] \in Dir
    BY DEF SnapshotTypeOK
  <1>2. dir' = [dir EXCEPT ![s] = d]
    BY DEF WriteManifest
  <1>3. /\ d \in Dir /\ d.place = dir[s].place /\ d.manifest = dir[s].files
        /\ d.files = dir[s].files
    BY <1>1 DEF Dir
  <1> HIDE DEF d
  <1> QED BY <1>2, <1>3, OneDir

\* The rename, or it fails.
LEMMA RenameMakes ==
    ASSUME SnapshotTypeOK, NEW s \in Snapshots, Rename(s)
    PROVE  /\ dir' \in [Snapshots -> Dir]
           /\ dir'[s].manifest = dir[s].manifest /\ dir'[s].files = dir[s].files
           /\ \A t \in Snapshots \ {s} : dir'[t] = dir[t]
           /\ task' \in [Snapshots -> Task]
           /\ \/ dir'[s].place = "final" /\ task'[s].pc = "commit"
              \/ /\ dir' = dir /\ task'[s].pc = "cleanup"
                 /\ task'[s].end = "failed"
           /\ \A t \in Snapshots \ {s} : task'[t] = task[t]
  <1> DEFINE d == [dir[s] EXCEPT !.place = "final"]
  <1>1. dir[s] \in Dir
    BY DEF SnapshotTypeOK
  <1>2. \/ dir' = [dir EXCEPT ![s] = d] /\ Goto(s, "commit")
        \/ dir' = dir /\ EndAs(s, "cleanup", "failed")
    BY DEF Rename
  <1>3. /\ d \in Dir /\ d.place = "final" /\ d.manifest = dir[s].manifest
        /\ d.files = dir[s].files
    BY <1>1 DEF Dir
  <1> HIDE DEF d
  <1>4. CASE dir' = [dir EXCEPT ![s] = d] /\ Goto(s, "commit")
    BY <1>3, <1>4, OneDir, GoesTo DEF TaskLabel
  <1>5. CASE dir' = dir /\ EndAs(s, "cleanup", "failed")
    BY <1>5, EndsTaskAs DEF TaskLabel, SnapshotTypeOK
  <1> QED BY <1>2, <1>4, <1>5

\* The commit, or the snapshot is marked.
LEMMA CommitMakes ==
    ASSUME SnapshotTypeOK, NEW s \in Snapshots, Commit(s)
    PROVE  /\ snapshot' \in [Snapshots -> Row]
           /\ task' \in [Snapshots -> Task]
           /\ \/ /\ snapshot'[s].status = "completed" /\ task'[s].pc = "none"
                 /\ snapshot'[s].items = dir[s].manifest
                 /\ snapshot'[s].hash = dir[s].manifest
                 /\ snapshot'[s].issues = shown[s].issues
              \/ /\ snapshot' = snapshot /\ task'[s].pc = "mark"
                 /\ task'[s].end = "db_finalization_pending"
           /\ \A t \in Snapshots \ {s} : /\ snapshot'[t] = snapshot[t]
                                         /\ task'[t] = task[t]
  <1> DEFINE r == [snapshot[s] EXCEPT !.status = "completed",
                                      !.items = dir[s].manifest,
                                      !.hash = dir[s].manifest,
                                      !.issues = shown[s].issues]
  <1>1. /\ snapshot[s] \in Row /\ dir[s].manifest \in Contents
        /\ shown[s].issues \in SUBSET Images
    BY DEF SnapshotTypeOK, Dir, Preview
  <1>2. \/ snapshot' = [snapshot EXCEPT ![s] = r] /\ Goto(s, "none")
        \/ snapshot' = snapshot /\ EndAs(s, "mark", "db_finalization_pending")
    BY DEF Commit, EndTask
  <1>3. /\ r \in Row /\ r.status = "completed" /\ r.items = dir[s].manifest
        /\ r.hash = dir[s].manifest /\ r.issues = shown[s].issues
    BY <1>1 DEF Row, Status
  <1> HIDE DEF r
  <1>4. CASE snapshot' = [snapshot EXCEPT ![s] = r] /\ Goto(s, "none")
    BY <1>3, <1>4, OneRow, GoesTo
  <1>5. CASE snapshot' = snapshot /\ EndAs(s, "mark", "db_finalization_pending")
    BY <1>5, EndsTaskAs DEF TaskLabel, SnapshotTypeOK
  <1> QED BY <1>2, <1>4, <1>5

\* The status is marked, or that fails.
LEMMA MarkMakes ==
    ASSUME SnapshotTypeOK, NEW s \in Snapshots, Mark(s)
    PROVE  /\ snapshot' \in [Snapshots -> Row]
           /\ task' \in [Snapshots -> Task] /\ task'[s].pc = "none"
           /\ snapshot'[s].items = snapshot[s].items
           /\ snapshot'[s].issues = snapshot[s].issues
           /\ snapshot'[s].hash \in {snapshot[s].hash, Nothing}
           /\ \/ snapshot'[s].status = task[s].end
              \/ snapshot' = snapshot
           /\ \A t \in Snapshots \ {s} : /\ snapshot'[t] = snapshot[t]
                                         /\ task'[t] = task[t]
  <1> DEFINE e == task[s].end
             l == Load(snapshot[s])
             r == IF e = "db_finalization_pending"
                  THEN [snapshot[s] EXCEPT !.status = e]
                  ELSE Finished(snapshot[s], l, e)
  <1>1. /\ snapshot[s] \in Row /\ e \in Status
    BY DEF SnapshotTypeOK, Task, Status, Open
  <1>2. \/ snapshot' = [snapshot EXCEPT ![s] = r]
        \/ snapshot' = snapshot
    BY DEF Mark
  <1>a. l \in Loaded /\ l.status = snapshot[s].status
    BY <1>1, IsLoaded
  <1> HIDE DEF l
  <1>3. /\ r \in Row /\ r.status = e /\ r.items = snapshot[s].items
        /\ r.issues = snapshot[s].issues
        /\ r.hash \in {snapshot[s].hash, Nothing}
    BY <1>1, <1>a, GetsStatus, IsFinished
  <1> HIDE DEF r
  <1>4. /\ task' \in [Snapshots -> Task] /\ task'[s].pc = "none"
        /\ \A t \in Snapshots \ {s} : task'[t] = task[t]
    BY GoesTo DEF Mark, EndTask
  <1>5. CASE snapshot' = [snapshot EXCEPT ![s] = r]
    BY <1>3, <1>4, <1>5, OneRow
  <1>6. CASE snapshot' = snapshot
    BY <1>4, <1>6 DEF SnapshotTypeOK
  <1> QED BY <1>2, <1>5, <1>6

LEMMA CancelMakes ==
    ASSUME SnapshotTypeOK, NEW s \in Snapshots, Cancel(s)
    PROVE  /\ snapshot' \in [Snapshots -> Row]
           /\ \A t \in Snapshots : /\ snapshot'[t].status = snapshot[t].status
                                   /\ snapshot'[t].items = snapshot[t].items
                                   /\ snapshot'[t].hash = snapshot[t].hash
                                   /\ snapshot'[t].issues = snapshot[t].issues
  <1> DEFINE r == [snapshot[s] EXCEPT !.cancel = TRUE]
  <1>1. /\ snapshot[s] \in Row
    BY DEF SnapshotTypeOK
  <1>2. snapshot' = [snapshot EXCEPT ![s] = r]
    BY DEF Cancel
  <1>3. /\ r \in Row /\ r.status = snapshot[s].status /\ r.items = snapshot[s].items
        /\ r.hash = snapshot[s].hash /\ r.issues = snapshot[s].issues
    BY <1>1 DEF Row
  <1> HIDE DEF r
  <1>4. /\ snapshot' \in [Snapshots -> Row] /\ snapshot'[s] = r
        /\ \A t \in Snapshots \ {s} : snapshot'[t] = snapshot[t]
    BY <1>2, <1>3, OneRow
  <1> QED BY <1>3, <1>4

\* The directory is removed, or that fails.
LEMMA CleanupMakes ==
    ASSUME SnapshotTypeOK, NEW s \in Snapshots, Cleanup(s)
    PROVE  /\ dir' \in [Snapshots -> Dir]
           /\ dir'[s] = NoDir \/ dir' = dir
           /\ \A t \in Snapshots \ {s} : dir'[t] = dir[t]
  <1>1. NoDir \in Dir
    BY NothingIs DEF NoDir, Dir
  <1>2. dir' = [dir EXCEPT ![s] = NoDir] \/ dir' = dir
    BY DEF Cleanup
  <1>3. CASE dir' = [dir EXCEPT ![s] = NoDir]
    BY <1>1, <1>3, OneDir
  <1> QED BY <1>2, <1>3 DEF SnapshotTypeOK

\* One file of a directory is broken.
LEMMA DamageMakes ==
    ASSUME SnapshotTypeOK, NEW s \in Snapshots, Damage(s)
    PROVE  /\ dir' \in [Snapshots -> Dir]
           /\ dir'[s].place = "final" /\ dir[s].place = "final"
           /\ dir'[s].manifest = dir[s].manifest
           /\ DOMAIN dir'[s].files = DOMAIN dir[s].files
           /\ \A i \in DOMAIN dir[s].files :
                 dir'[s].files[i] \in {dir[s].files[i], Broken}
           /\ \A t \in Snapshots \ {s} : dir'[t] = dir[t]
  <1>1. PICK i \in DOMAIN dir[s].files :
            dir' = [dir EXCEPT ![s].files[i] = Broken]
    BY DEF Damage
  <1> DEFINE n == [dir[s].files EXCEPT ![i] = Broken]
             d == [dir[s] EXCEPT !.files = n]
  <1>2. dir[s] \in Dir /\ dir[s].files \in Contents
    BY DEF SnapshotTypeOK, Dir
  <1>3. Broken \in Content
    BY LimitsAssumption DEF Broken, Content
  <1>4. /\ n \in Contents /\ DOMAIN n = DOMAIN dir[s].files
        /\ \A j \in DOMAIN n : n[j] \in {dir[s].files[j], Broken}
    <2>1. /\ DOMAIN dir[s].files \subseteq Images
          /\ dir[s].files \in [DOMAIN dir[s].files -> Content]
      BY <1>2, ContentsMember
    <2>2. n \in [DOMAIN dir[s].files -> Content]
      BY <1>3, <2>1
    <2> QED BY <2>1, <2>2, IsContents
  <1>5. dir' = [dir EXCEPT ![s] = d]
    BY <1>1
  <1> HIDE DEF n
  <1>6. /\ d \in Dir /\ d.place = dir[s].place /\ d.files = n
        /\ d.manifest = dir[s].manifest
    BY <1>2, <1>4 DEF Dir
  <1> HIDE DEF d
  <1>7. dir' \in [Snapshots -> Dir] /\ dir'[s] = d
        /\ \A t \in Snapshots \ {s} : dir'[t] = dir[t]
    BY <1>5, <1>6, OneDir
  <1> QED BY <1>4, <1>6, <1>7 DEF Damage

\* The rows that were loaded as CREATING are FAILED, or that fails.
LEMMA FailStaleMakes ==
    ASSUME SnapshotTypeOK, NEW p \in Processes, FailStale(p)
    PROVE  /\ snapshot' \in [Snapshots -> Row] /\ refailed' \subseteq Snapshots
           /\ refailed \subseteq refailed'
           /\ \A t \in Snapshots :
                 /\ snapshot'[t].items = snapshot[t].items
                 /\ snapshot'[t].hash = snapshot[t].hash
                 /\ snapshot'[t].issues = snapshot[t].issues
                 /\ \/ snapshot'[t] = snapshot[t]
                    \/ /\ t \in start[p].todo /\ snapshot'[t].status = "failed"
                       /\ snapshot[t].status # "creating" => t \in refailed'
  <1> DEFINE r(t) == [snapshot[t] EXCEPT !.status = "failed"]
  <1>1. \A t \in Snapshots :
           /\ r(t) \in Row /\ r(t).status = "failed"
           /\ r(t).items = snapshot[t].items
           /\ r(t).hash = snapshot[t].hash /\ r(t).issues = snapshot[t].issues
    <2> TAKE t \in Snapshots
    <2>1. snapshot[t] \in Row /\ "failed" \in Status
      BY DEF SnapshotTypeOK, Status
    <2> QED BY <2>1, GetsStatus
  <1>2. \/ /\ snapshot' = [t \in Snapshots |-> IF t \in start[p].todo
                                             THEN r(t) ELSE snapshot[t]]
           /\ refailed' = refailed \cup
                 {t \in start[p].todo : snapshot[t].status # "creating"}
        \/ UNCHANGED <<snapshot, refailed>>
    BY DEF FailStale
  <1>3. /\ snapshot \in [Snapshots -> Row] /\ refailed \subseteq Snapshots
        /\ start[p].todo \subseteq Snapshots
    BY DEF SnapshotTypeOK, Start
  <1> HIDE DEF r
  <1> QED BY <1>1, <1>2, <1>3

\* A check clears the digest, and condemns what it had not loaded as CORRUPTED.
LEMMA CondemnMakes ==
    ASSUME SnapshotTypeOK, Condemn
    PROVE  /\ snapshot' \in [Snapshots -> Row]
           /\ \A t \in Snapshots :
                 /\ snapshot'[t].items = snapshot[t].items
                 /\ snapshot'[t].issues = snapshot[t].issues
                 /\ snapshot'[t].hash \in {snapshot[t].hash, Nothing}
                 /\ \/ snapshot'[t].status = snapshot[t].status
                    \/ snapshot'[t].status = "corrupted" /\ t \in check.current
  <1> DEFINE r(t) == Finished(snapshot[t], check.loaded, "corrupted")
  <1>1. \A t \in Snapshots :
           /\ r(t) \in Row /\ r(t).status \in {snapshot[t].status, "corrupted"}
           /\ r(t).hash \in {snapshot[t].hash, Nothing}
           /\ r(t).items = snapshot[t].items /\ r(t).issues = snapshot[t].issues
    <2>1. check.loaded \in Loaded /\ "corrupted" \in Status
      BY DEF SnapshotTypeOK, Check, Status
    <2> TAKE t \in Snapshots
    <2>2. snapshot[t] \in Row
      BY DEF SnapshotTypeOK
    <2> QED BY <2>1, <2>2, IsFinished
  <1>2. snapshot' = [t \in Snapshots |-> IF t \in check.current
                                         THEN r(t) ELSE snapshot[t]]
    BY DEF Condemn
  <1> HIDE DEF r
  <1> QED BY <1>1, <1>2 DEF SnapshotTypeOK

-----------------------------------------------------------------------------
(* what a start does *)

LEMMA OneStart ==
    ASSUME SnapshotTypeOK, NEW p \in Processes, NEW r \in Start,
           start' = [start EXCEPT ![p] = r]
    PROVE  /\ start' \in [Processes -> Start] /\ start'[p] = r
           /\ \A q \in Processes \ {p} : start'[q] = start[q]
  BY DEF SnapshotTypeOK

LEMMA LaunchMakes ==
    ASSUME SnapshotTypeOK, NEW p \in Processes, Launch(p)
    PROVE  /\ start' \in [Processes -> Start] /\ start'[p].pc = "list"
           /\ \A q \in Processes \ {p} : start'[q] = start[q]
  <1> DEFINE r == [start[p] EXCEPT !.pc = "list"]
  <1>1. start[p] \in Start /\ start' = [start EXCEPT ![p] = r]
    BY DEF SnapshotTypeOK, Launch
  <1>2. r \in Start /\ r.pc = "list"
    BY <1>1 DEF Start
  <1> HIDE DEF r
  <1> QED BY <1>1, <1>2, OneStart

LEMMA ListMakes ==
    ASSUME SnapshotTypeOK, NEW p \in Processes, List(p)
    PROVE  /\ start' \in [Processes -> Start] /\ start'[p].pc = "recover"
           /\ start'[p].todo = {s \in Snapshots :
                                   snapshot[s].status \in Recoverable}
           /\ start'[p].dead = {s \in Snapshots :
                                   /\ shown[s] # NoPreview
                                   /\ task[s].pc = "none"}
           /\ \A q \in Processes \ {p} : start'[q] = start[q]
  <1> DEFINE todo == {s \in Snapshots : snapshot[s].status \in Recoverable}
             dead == {s \in Snapshots : /\ shown[s] # NoPreview
                                        /\ task[s].pc = "none"}
             r == [start[p] EXCEPT !.pc = "recover", !.todo = todo,
                                   !.dead = dead]
  <1>1. start[p] \in Start /\ start' = [start EXCEPT ![p] = r]
    BY DEF SnapshotTypeOK, List
  <1>a. todo \in SUBSET Snapshots /\ dead \in SUBSET Snapshots
    OBVIOUS
  <1> HIDE DEF todo, dead
  <1>2. r \in Start /\ r.pc = "recover" /\ r.todo = todo /\ r.dead = dead
    BY <1>1, <1>a DEF Start
  <1> HIDE DEF r
  <1>3. /\ start' \in [Processes -> Start] /\ start'[p].pc = "recover"
        /\ start'[p].todo = todo /\ start'[p].dead = dead
        /\ \A q \in Processes \ {p} : start'[q] = start[q]
    BY <1>1, <1>2, OneStart
  <1> QED BY <1>3 DEF todo, dead

LEMMA ListFailsMakes ==
    ASSUME SnapshotTypeOK, NEW p \in Processes, ListFails(p)
    PROVE  /\ start' \in [Processes -> Start] /\ start'[p].pc = "recover"
           /\ start'[p].dead = start[p].dead
           /\ \A q \in Processes \ {p} : start'[q] = start[q]
  <1> DEFINE r == [start[p] EXCEPT !.pc = "recover"]
  <1>1. start[p] \in Start /\ start' = [start EXCEPT ![p] = r]
    BY DEF SnapshotTypeOK, ListFails
  <1>2. r \in Start /\ r.pc = "recover" /\ r.dead = start[p].dead
    BY <1>1 DEF Start
  <1> HIDE DEF r
  <1> QED BY <1>1, <1>2, OneStart

LEMMA SkipMakes ==
    ASSUME SnapshotTypeOK, NEW p \in Processes, NEW s \in Snapshots,
           Skip(p, s)
    PROVE  /\ start' \in [Processes -> Start] /\ start'[p].pc = "recover"
           /\ start'[p].todo = start[p].todo \ {s}
           /\ start'[p].dead = start[p].dead
           /\ \A q \in Processes \ {p} : start'[q] = start[q]
  <1> DEFINE todo == start[p].todo \ {s}
             r == [start[p] EXCEPT !.todo = todo]
  <1>1. /\ start[p] \in Start /\ start[p].pc = "recover"
        /\ start' = [start EXCEPT ![p] = r]
    BY DEF SnapshotTypeOK, Skip
  <1>a. todo \in SUBSET Snapshots
    BY <1>1 DEF Start
  <1> HIDE DEF todo
  <1>2. /\ r \in Start /\ r.pc = "recover" /\ r.todo = todo
        /\ r.dead = start[p].dead
    BY <1>1, <1>a DEF Start
  <1> HIDE DEF r
  <1>3. /\ start' \in [Processes -> Start] /\ start'[p].pc = "recover"
        /\ start'[p].todo = todo /\ start'[p].dead = start[p].dead
        /\ \A q \in Processes \ {p} : start'[q] = start[q]
    BY <1>1, <1>2, OneStart
  <1> QED BY <1>3 DEF todo

LEMMA ReconstructMakes ==
    ASSUME SnapshotTypeOK, NEW p \in Processes, NEW s \in Snapshots,
           Reconstruct(p, s)
    PROVE  /\ start' \in [Processes -> Start] /\ start'[p].pc = "store"
           /\ start'[p].todo = start[p].todo \ {s}
           /\ start'[p].current = {s}
           /\ start'[p].loaded.status # "completed"
           /\ start'[p].dead = start[p].dead
           /\ \A q \in Processes \ {p} : start'[q] = start[q]
  <1>0. PICK good \in BOOLEAN :
            start' = [start EXCEPT ![p].pc = "store", ![p].good = good,
                                   ![p].loaded = Load(snapshot[s]),
                                   ![p].todo = @ \ {s}, ![p].current = {s}]
    BY DEF Reconstruct
  <1> DEFINE todo == start[p].todo \ {s}
             one == {s}
             l == Load(snapshot[s])
             r == [start[p] EXCEPT !.pc = "store", !.good = good, !.loaded = l,
                                   !.todo = todo, !.current = one]
  <1>1. start[p] \in Start /\ start' = [start EXCEPT ![p] = r]
    BY <1>0 DEF SnapshotTypeOK
  <1>a. todo \in SUBSET Snapshots /\ one \in SUBSET Snapshots
    BY <1>1 DEF Start
  <1>b. l \in Loaded /\ l.status # "completed"
    <2>1. snapshot[s] \in Row /\ snapshot[s].status # "completed"
      BY DEF SnapshotTypeOK, Reconstruct
    <2> QED BY <2>1, IsLoaded
  <1> HIDE DEF todo, one, l
  <1>2. /\ r \in Start /\ r.pc = "store" /\ r.todo = todo
        /\ r.dead = start[p].dead /\ r.current = one /\ r.loaded = l
    BY <1>1, <1>a, <1>b DEF Start
  <1> HIDE DEF r
  <1>3. /\ start' \in [Processes -> Start] /\ start'[p].pc = "store"
        /\ start'[p].todo = todo /\ start'[p].dead = start[p].dead
        /\ start'[p].current = one /\ start'[p].loaded = l
        /\ \A q \in Processes \ {p} : start'[q] = start[q]
    BY <1>1, <1>2, OneStart
  <1> QED BY <1>b, <1>3 DEF todo, one

\* A start is through with a record.
LEMMA NextRecordMakes ==
    ASSUME SnapshotTypeOK, NEW p \in Processes, NextRecord(p)
    PROVE  /\ start' \in [Processes -> Start] /\ start'[p].pc = "recover"
           /\ start'[p].todo = start[p].todo
           /\ start'[p].dead = start[p].dead
           /\ \A q \in Processes \ {p} : start'[q] = start[q]
  <1> DEFINE one == {}
             r == [start[p] EXCEPT !.pc = "recover", !.current = one]
  <1>1. start[p] \in Start /\ start' = [start EXCEPT ![p] = r]
    BY DEF SnapshotTypeOK, NextRecord
  <1>a. one \in SUBSET Snapshots
    OBVIOUS
  <1> HIDE DEF one
  <1>2. /\ r \in Start /\ r.pc = "recover" /\ r.todo = start[p].todo
        /\ r.dead = start[p].dead
    BY <1>1, <1>a DEF Start
  <1> HIDE DEF r
  <1> QED BY <1>1, <1>2, OneStart

\* The record of the start is completed.
LEMMA StoreMakes ==
    ASSUME SnapshotTypeOK, NEW p \in Processes, Store(p)
    PROVE  /\ start' \in [Processes -> Start] /\ start'[p].pc = "recover"
           /\ start'[p].todo = start[p].todo
           /\ start'[p].dead = start[p].dead
           /\ \A q \in Processes \ {p} : start'[q] = start[q]
           /\ snapshot' \in [Snapshots -> Row]
           /\ \E s \in start[p].current :
                 /\ \A t \in Snapshots \ {s} : snapshot'[t] = snapshot[t]
                 /\ snapshot'[s] = Restored(s, start[p].loaded)
                 /\ snapshot'[s].items = dir[s].manifest
  <1>1. NextRecord(p)
    BY DEF Store
  <1>2. PICK s \in start[p].current :
           /\ Restored(s, start[p].loaded).items = dir[s].manifest
           /\ snapshot' = [snapshot EXCEPT ![s] = Restored(s, start[p].loaded)]
    BY DEF Store, Agrees
  <1>3. s \in Snapshots /\ start[p].loaded \in Loaded
    BY <1>2 DEF Start, SnapshotTypeOK
  <1>4. Restored(s, start[p].loaded) \in Row
    BY <1>3, IsRestored
  <1>5. /\ snapshot' \in [Snapshots -> Row]
        /\ snapshot'[s] = Restored(s, start[p].loaded)
        /\ \A t \in Snapshots \ {s} : snapshot'[t] = snapshot[t]
    BY <1>2, <1>3, <1>4, OneRow
  <1> QED BY <1>1, <1>2, <1>5, NextRecordMakes

\* The record is completed already, or it is going to be condemned.
LEMMA GiveUpMakes ==
    ASSUME SnapshotTypeOK, NEW p \in Processes, GiveUp(p)
    PROVE  /\ start' \in [Processes -> Start]
           /\ start'[p].todo = start[p].todo
           /\ start'[p].dead = start[p].dead
           /\ \A q \in Processes \ {p} : start'[q] = start[q]
           /\ \E s \in start[p].current :
                 \/ start'[p].pc = "recover" /\ snapshot[s].status = "completed"
                 \/ /\ start'[p].pc = "spoil"
                    /\ start'[p].current = start[p].current
                    /\ start'[p].loaded.status = snapshot[s].status
                    /\ snapshot[s].status # "completed"
  <1>1. PICK s \in start[p].current :
           \/ snapshot[s].status = "completed" /\ NextRecord(p)
           \/ /\ snapshot[s].status # "completed"
              /\ start' = [start EXCEPT ![p].pc = "spoil",
                                        ![p].loaded = Load(snapshot[s])]
    BY DEF GiveUp
  <1>2. CASE snapshot[s].status = "completed" /\ NextRecord(p)
    BY <1>2, NextRecordMakes
  <1>3. CASE /\ snapshot[s].status # "completed"
             /\ start' = [start EXCEPT ![p].pc = "spoil",
                                       ![p].loaded = Load(snapshot[s])]
    <2> DEFINE l == Load(snapshot[s])
               r == [start[p] EXCEPT !.pc = "spoil", !.loaded = l]
    <2>1. start[p] \in Start /\ s \in Snapshots
      BY DEF SnapshotTypeOK, Start
    <2>2. l \in Loaded /\ l.status = snapshot[s].status
      BY <2>1, IsLoaded DEF SnapshotTypeOK
    <2>3. start' = [start EXCEPT ![p] = r]
      BY <1>3
    <2> HIDE DEF l
    <2>4. /\ r \in Start /\ r.pc = "spoil" /\ r.todo = start[p].todo
          /\ r.dead = start[p].dead /\ r.current = start[p].current
          /\ r.loaded = l
      BY <2>1, <2>2 DEF Start
    <2> HIDE DEF r
    <2>5. /\ start' \in [Processes -> Start] /\ start'[p] = r
          /\ \A q \in Processes \ {p} : start'[q] = start[q]
      BY <2>3, <2>4, OneStart
    <2> QED BY <1>3, <2>2, <2>4, <2>5
  <1> QED BY <1>1, <1>2, <1>3

\* The record is condemned, if it was not loaded as CORRUPTED.
LEMMA SpoilMakes ==
    ASSUME SnapshotTypeOK, NEW p \in Processes, Spoil(p)
    PROVE  /\ start' \in [Processes -> Start] /\ start'[p].pc = "recover"
           /\ start'[p].todo = start[p].todo
           /\ start'[p].dead = start[p].dead
           /\ \A q \in Processes \ {p} : start'[q] = start[q]
           /\ snapshot' \in [Snapshots -> Row]
           /\ \E s \in start[p].current :
                 /\ \A t \in Snapshots \ {s} : snapshot'[t] = snapshot[t]
                 /\ snapshot'[s].status =
                        IF start[p].loaded.status = "corrupted"
                        THEN snapshot[s].status ELSE "corrupted"
                 /\ snapshot'[s].items = snapshot[s].items
                 /\ snapshot'[s].issues = snapshot[s].issues
                 /\ snapshot'[s].hash \in {snapshot[s].hash, Nothing}
  <1>1. NextRecord(p)
    BY DEF Spoil
  <1>2. PICK s \in start[p].current :
           snapshot' = [snapshot EXCEPT
                           ![s] = Finished(@, start[p].loaded, "corrupted")]
    BY DEF Spoil
  <1> DEFINE d == Finished(snapshot[s], start[p].loaded, "corrupted")
  <1>3. /\ s \in Snapshots /\ start[p].loaded \in Loaded
        /\ snapshot[s] \in Row /\ "corrupted" \in Status
    BY <1>2 DEF Start, SnapshotTypeOK, Status
  <1>4. /\ d \in Row /\ d.hash \in {snapshot[s].hash, Nothing}
        /\ d.status = IF start[p].loaded.status = "corrupted"
                      THEN snapshot[s].status ELSE "corrupted"
        /\ d.items = snapshot[s].items /\ d.issues = snapshot[s].issues
    BY <1>3, IsFinished
  <1>5. snapshot' = [snapshot EXCEPT ![s] = d]
    BY <1>2, <1>3 DEF SnapshotTypeOK
  <1> HIDE DEF d
  <1>6. /\ snapshot' \in [Snapshots -> Row] /\ snapshot'[s] = d
        /\ \A t \in Snapshots \ {s} : snapshot'[t] = snapshot[t]
    BY <1>3, <1>4, <1>5, OneRow
  <1> QED BY <1>1, <1>4, <1>6, NextRecordMakes

LEMMA FindStaleMakes ==
    ASSUME SnapshotTypeOK, NEW p \in Processes, FindStale(p)
    PROVE  /\ start' \in [Processes -> Start] /\ start'[p].pc = "stale"
           /\ start'[p].todo = {s \in Snapshots :
                                   snapshot[s].status = "creating"}
           /\ start'[p].dead = start[p].dead
           /\ \A q \in Processes \ {p} : start'[q] = start[q]
  <1> DEFINE todo == {s \in Snapshots : snapshot[s].status = "creating"}
             r == [start[p] EXCEPT !.pc = "stale", !.todo = todo]
  <1>1. start[p] \in Start /\ start' = [start EXCEPT ![p] = r]
    BY DEF SnapshotTypeOK, FindStale
  <1>a. todo \in SUBSET Snapshots
    OBVIOUS
  <1> HIDE DEF todo
  <1>2. /\ r \in Start /\ r.pc = "stale" /\ r.todo = todo
        /\ r.dead = start[p].dead
    BY <1>1, <1>a DEF Start
  <1> HIDE DEF r
  <1>3. /\ start' \in [Processes -> Start] /\ start'[p].pc = "stale"
        /\ start'[p].todo = todo /\ start'[p].dead = start[p].dead
        /\ \A q \in Processes \ {p} : start'[q] = start[q]
    BY <1>1, <1>2, OneStart
  <1> QED BY <1>3 DEF todo

LEMMA FailStaleStarts ==
    ASSUME SnapshotTypeOK, NEW p \in Processes, FailStale(p)
    PROVE  /\ start' \in [Processes -> Start] /\ start'[p].pc = "up"
           /\ \A q \in Processes \ {p} : start'[q] = start[q]
  <1> DEFINE none == {}
             r == [start[p] EXCEPT !.pc = "up", !.todo = none]
  <1>1. start[p] \in Start /\ start' = [start EXCEPT ![p] = r]
    BY DEF SnapshotTypeOK, FailStale
  <1>a. none \in SUBSET Snapshots
    OBVIOUS
  <1> HIDE DEF none
  <1>2. r \in Start /\ r.pc = "up"
    BY <1>1, <1>a DEF Start
  <1> HIDE DEF r
  <1> QED BY <1>1, <1>2, OneStart

\* An application ends, and its thread with it.
LEMMA AppCrashMakes ==
    ASSUME SnapshotTypeOK, NEW p \in Processes, AppCrash(p)
    PROVE  /\ start' \in [Processes -> Start] /\ start'[p].pc = "down"
           /\ \A q \in Processes \ {p} : start'[q] = start[q]
           /\ task' \in [Snapshots -> Task]
           /\ \A t \in Snapshots : task'[t].pc = "none" \/ task'[t] = task[t]
  <1>1. StartAt("down") \in Start /\ StartAt("down").pc = "down"
    BY UnreadIs DEF StartAt, Start
  <1>2. start' = [start EXCEPT ![p] = StartAt("down")]
    BY DEF AppCrash
  <1>3. /\ start' \in [Processes -> Start] /\ start'[p].pc = "down"
        /\ \A q \in Processes \ {p} : start'[q] = start[q]
    BY <1>1, <1>2, OneStart
  <1> DEFINE k(t) == [task[t] EXCEPT !.pc = "none"]
  <1>4. \A t \in Snapshots : k(t) \in Task /\ k(t).pc = "none"
    BY DEF SnapshotTypeOK, Task
  <1>5. task' = [t \in Snapshots |-> IF p \in task[t].app
                                     THEN k(t) ELSE task[t]]
    BY DEF AppCrash
  <1> HIDE DEF k
  <1> QED BY <1>3, <1>4, <1>5 DEF SnapshotTypeOK

\* The user confirms a preview.
LEMMA CurrentIsPreview ==
    ASSUME SnapshotTypeOK
    PROVE  CurrentPreview \in Preview
  <1> DEFINE f == [i \in Accepted |-> [bytes |-> image[i].bytes,
                                       caption |-> image[i].caption]]
             w == {i \in Accepted : image[i].warned}
  <1>1. \A i \in Accepted : i \in Images /\ image[i] \in Image
    BY DEF SnapshotTypeOK, Accepted
  <1>2. \A i \in Accepted :
           [bytes |-> image[i].bytes, caption |-> image[i].caption] \in Content
    BY <1>1, LimitsAssumption DEF Image, Content
  <1>3. f \in [Accepted -> Content] /\ Accepted \in SUBSET Images
    BY <1>1, <1>2
  <1>4. f \in Contents
    BY <1>3, IsContents
  <1>5. w \in SUBSET Images
    BY <1>1
  <1> HIDE DEF f
  <1> QED BY <1>4, <1>5 DEF CurrentPreview, Preview, f

LEMMA StartMakes ==
    ASSUME SnapshotTypeOK, NEW p \in Processes, NEW s \in Snapshots,
           StartSnapshot(p, s)
    PROVE  /\ task' \in [Snapshots -> Task] /\ task'[s].pc = "begin"
           /\ \A t \in Snapshots \ {s} : task'[t] = task[t]
           /\ shown' \in [Snapshots -> Preview] /\ shown'[s] # NoPreview
           /\ \A t \in Snapshots \ {s} : shown'[t] = shown[t]
  <1> DEFINE k == [pc |-> "begin", app |-> {p}, end |-> "failed"]
             v == CurrentPreview
  <1>1. k \in Task /\ k.pc = "begin"
    BY DEF Task, TaskLabel
  <1>2. v \in Preview /\ v # NoPreview
    BY CurrentIsPreview DEF StartSnapshot
  <1>3. task' = [task EXCEPT ![s] = k] /\ shown' = [shown EXCEPT ![s] = v]
    BY DEF StartSnapshot
  <1> HIDE DEF k, v
  <1> QED BY <1>1, <1>2, <1>3 DEF SnapshotTypeOK

-----------------------------------------------------------------------------
(* every variable keeps to its set of values *)

LEMMA FailureCounts ==
    ASSUME SnapshotTypeOK, Failure \/ failures' = failures
    PROVE  failures' \in 0..MaxFailures
  BY LimitsAssumption DEF SnapshotTypeOK, Failure

LEMMA CallCounts ==
    ASSUME SnapshotTypeOK, calls < MaxCalls, calls' = calls + 1
    PROVE  calls' \in 0..MaxCalls
  BY LimitsAssumption DEF SnapshotTypeOK

\* A caption has had no more revisions than there were changes.
Captions == \A i \in Images : image[i].caption <= changes + 1

LEMMA ChangeMakes ==
    ASSUME SnapshotTypeOK, Captions, NEW i \in Images, Change(i)
    PROVE  /\ image' \in [Images -> Image] /\ changes' \in 0..MaxChanges
           /\ Captions'
  <1>1. image[i] \in Image /\ image \in [Images -> Image]
    BY DEF SnapshotTypeOK
  <1>2. changes < MaxChanges /\ changes' = changes + 1 /\ changes \in Nat
    BY LimitsAssumption DEF Change, SnapshotTypeOK
  <1>3. PICK new \in {Edited(i), Selected(i), Replaced(i), Inspected(i)} :
            image' = [image EXCEPT ![i] = new]
    BY DEF Change
  <1>4. new \in Image /\ new.caption <= changes' + 1
    <2> DEFINE cap == image[i].caption
               more == cap + 1
               other == 1 - image[i].bytes
               sel == ~image[i].accepted
               warn == ~image[i].warned
    <2>1. cap \in Nat /\ cap <= changes + 1 /\ image[i].bytes \in 0..1
      BY <1>1 DEF Captions, Image
    <2>2. /\ cap <= changes' + 1 /\ more \in 1..(MaxChanges + 1)
          /\ more <= changes' + 1 /\ other \in 0..1
      BY <1>2, <2>1, LimitsAssumption
    <2>3. sel \in BOOLEAN /\ warn \in BOOLEAN
      BY Zenon
    <2>4. /\ Edited(i) = [image[i] EXCEPT !.caption = more]
          /\ Selected(i) = [image[i] EXCEPT !.accepted = sel]
          /\ Replaced(i) = [image[i] EXCEPT !.bytes = other]
          /\ Inspected(i) = [image[i] EXCEPT !.warned = warn]
      BY Zenon DEF Edited, Selected, Replaced, Inspected
    <2>5. cap = image[i].caption
      OBVIOUS
    <2> HIDE DEF cap, more, other, sel, warn
    <2>6. CASE new = Edited(i)
      BY <1>1, <2>2, <2>4, <2>6 DEF Image
    <2>7. CASE new = Selected(i)
      BY <1>1, <2>2, <2>3, <2>4, <2>5, <2>7 DEF Image
    <2>8. CASE new = Replaced(i)
      BY <1>1, <2>2, <2>4, <2>5, <2>8 DEF Image
    <2>9. CASE new = Inspected(i)
      BY <1>1, <2>2, <2>3, <2>4, <2>5, <2>9 DEF Image
    <2> QED BY <1>3, <2>6, <2>7, <2>8, <2>9
  <1>5. /\ image' \in [Images -> Image] /\ image'[i] = new
        /\ \A j \in Images \ {i} : image'[j] = image[j]
    BY <1>1, <1>3, <1>4
  <1>6. Captions'
    <2>1. \A j \in Images : image[j].caption \in Nat
      BY DEF SnapshotTypeOK, Image
    <2> QED BY <1>2, <1>4, <1>5, <2>1 DEF Captions
  <1>7. changes' \in 0..MaxChanges
    BY <1>2, LimitsAssumption
  <1> QED BY <1>5, <1>6, <1>7

LEMMA CheckIs ==
    ASSUME SnapshotTypeOK
    PROVE  /\ NoCheck \in Check
           /\ [check EXCEPT !.pc = "bad"] \in Check
           /\ \A s \in Snapshots :
                 [pc |-> "verify", current |-> {s}, loaded |-> Load(snapshot[s])]
                     \in Check
  <1>1. \A s \in Snapshots : Load(snapshot[s]) \in Loaded
    BY IsLoaded DEF SnapshotTypeOK
  <1> QED BY <1>1, UnreadIs DEF SnapshotTypeOK, NoCheck, Check

\* A check ends, or it is bad.
LEMMA VerifyMakes ==
    ASSUME Verify
    PROVE  /\ check' = NoCheck \/ check' = [check EXCEPT !.pc = "bad"]
           /\ UNCHANGED <<image, snapshot, dir, task, start, shown, refailed, bounds>>
  <1>1. PICK good \in BOOLEAN :
            check' = IF good THEN NoCheck ELSE [check EXCEPT !.pc = "bad"]
    BY Zenon DEF Verify
  <1>2. CASE good
    BY <1>1, <1>2 DEF Verify
  <1>3. CASE ~good
    BY <1>1, <1>3 DEF Verify
  <1> QED BY <1>2, <1>3

LEMMA SnapshotTypeInit == SnapshotInit => SnapshotTypeOK /\ Captions
  <1> SUFFICES ASSUME SnapshotInit PROVE SnapshotTypeOK /\ Captions
    OBVIOUS
  <1>1. /\ NoRow \in Row /\ NoDir \in Dir /\ NoPreview \in Preview
        /\ NoCheck \in Check
    BY NothingIs, UnreadIs
    DEF NoRow, NoDir, NoPreview, NoCheck, Row, Dir, Preview, Check, Status
  <1>2. StartAt("up") \in Start
    BY UnreadIs DEF StartAt, Start
  <1>3. [pc |-> "none", app |-> {}, end |-> "failed"] \in Task
    BY DEF Task
  <1>4. [accepted |-> TRUE, bytes |-> 0, caption |-> 1, warned |-> FALSE]
            \in Image
    BY LimitsAssumption DEF Image
  <1>5. image \in [Images -> Image] /\ Captions
    BY <1>4 DEF SnapshotInit, Captions
  <1>6. /\ snapshot \in [Snapshots -> Row] /\ dir \in [Snapshots -> Dir]
        /\ shown \in [Snapshots -> Preview] /\ check \in Check
    BY <1>1 DEF SnapshotInit
  <1>7. start \in [Processes -> Start] /\ task \in [Snapshots -> Task]
    BY <1>2, <1>3 DEF SnapshotInit
  <1> QED BY <1>5, <1>6, <1>7, LimitsAssumption
  DEF SnapshotInit, SnapshotTypeOK

LEMMA CreateTyped ==
    ASSUME SnapshotTypeOK, NEW s \in Snapshots, Create(s)
    PROVE  SnapshotTypeOK'
  <1>1. failures' \in 0..MaxFailures
    <2>1. Failure \/ failures' = failures
      BY DEF Create, Begin, Insert, CopyImage, StopCopying, FailCopying,
         WriteManifest, Rename, Commit, Cleanup, Mark
    <2> QED BY <2>1, FailureCounts
  <1>2. CASE Begin(s)
    <2>1. Goto(s, "insert") \/ Goto(s, "none")
      BY <1>2 DEF Begin, EndTask
    <2>2. task' \in [Snapshots -> Task]
      BY <2>1, GoesTo DEF TaskLabel
    <2> QED BY <1>1, <1>2, <2>2 DEF Begin, bounds, SnapshotTypeOK
  <1>3. CASE Insert(s)
    <2>1. task' \in [Snapshots -> Task]
      BY <1>3, GoesTo DEF Insert, TaskLabel
    <2> QED BY <1>1, <1>3, <2>1, InsertMakes DEF Insert, bounds, SnapshotTypeOK
  <1>4. CASE CopyImage(s)
    BY <1>1, <1>4, CopyMakes DEF CopyImage, bounds, SnapshotTypeOK
  <1>5. CASE StopCopying(s)
    <2>1. task' \in [Snapshots -> Task]
      BY <1>5, EndsTaskAs DEF StopCopying, TaskLabel
    <2> QED BY <1>1, <1>5, <2>1 DEF StopCopying, bounds, SnapshotTypeOK
  <1>6. CASE FailCopying(s)
    <2>1. task' \in [Snapshots -> Task]
      BY <1>6, EndsTaskAs DEF FailCopying, TaskLabel
    <2> QED BY <1>1, <1>6, <2>1 DEF FailCopying, bounds, SnapshotTypeOK
  <1>7. CASE WriteManifest(s)
    <2>1. task' \in [Snapshots -> Task]
      BY <1>7, GoesTo DEF WriteManifest, TaskLabel
    <2> QED BY <1>1, <1>7, <2>1, ManifestMakes
            DEF WriteManifest, bounds, SnapshotTypeOK
  <1>8. CASE Rename(s)
    BY <1>1, <1>8, RenameMakes DEF Rename, bounds, SnapshotTypeOK
  <1>9. CASE Commit(s)
    BY <1>1, <1>9, CommitMakes DEF Commit, bounds, SnapshotTypeOK
  <1>10. CASE Cleanup(s)
    <2>1. task' \in [Snapshots -> Task]
      BY <1>10, GoesTo DEF Cleanup, TaskLabel
    <2> QED BY <1>1, <1>10, <2>1, CleanupMakes
    DEF Cleanup, bounds, SnapshotTypeOK
  <1>11. CASE Mark(s)
    BY <1>1, <1>11, MarkMakes DEF Mark, bounds, SnapshotTypeOK
  <1> QED BY <1>2, <1>3, <1>4, <1>5, <1>6, <1>7, <1>8, <1>9, <1>10, <1>11
          DEF Create

LEMMA RecoverTyped ==
    ASSUME SnapshotTypeOK, NEW p \in Processes, Recover(p) \/ AppCrash(p)
    PROVE  SnapshotTypeOK'
  <1>1. CASE Launch(p)
    BY <1>1, LaunchMakes DEF Launch, bounds, SnapshotTypeOK
  <1>2. CASE List(p)
    BY <1>2, ListMakes DEF List, bounds, SnapshotTypeOK
  <1>3. CASE Store(p)
    BY <1>3, StoreMakes DEF Store, bounds, SnapshotTypeOK
  <1>4. CASE FailStale(p)
    <2>1. failures' \in 0..MaxFailures
      BY <1>4, FailureCounts DEF FailStale
    <2> QED BY <1>4, <2>1, FailStaleMakes, FailStaleStarts
    DEF FailStale, bounds, SnapshotTypeOK
  <1>8. CASE ListFails(p)
    <2>1. failures' \in 0..MaxFailures
      BY <1>8, FailureCounts DEF ListFails
    <2> QED BY <1>8, <2>1, ListFailsMakes DEF ListFails, bounds, SnapshotTypeOK
  <1>9. CASE GiveUp(p)
    <2>1. failures' \in 0..MaxFailures
      BY <1>9, FailureCounts DEF GiveUp
    <2> QED BY <1>9, <2>1, GiveUpMakes DEF GiveUp, bounds, SnapshotTypeOK
  <1>10. CASE Spoil(p)
    BY <1>10, SpoilMakes DEF Spoil, bounds, SnapshotTypeOK
  <1>11. CASE FindStale(p)
    BY <1>11, FindStaleMakes DEF FindStale, bounds, SnapshotTypeOK
  <1>5. CASE \E s \in Snapshots : Skip(p, s)
    BY <1>5, SkipMakes DEF Skip, bounds, SnapshotTypeOK
  <1>6. CASE \E s \in Snapshots : Reconstruct(p, s)
    <2>1. failures' \in 0..MaxFailures
      BY <1>6, FailureCounts DEF Reconstruct
    <2> QED BY <1>6, <2>1, ReconstructMakes
    DEF Reconstruct, bounds, SnapshotTypeOK
  <1>7. CASE AppCrash(p)
    <2>1. failures' \in 0..MaxFailures
      BY <1>7, FailureCounts DEF AppCrash
    <2> QED BY <1>7, <2>1, AppCrashMakes DEF AppCrash, bounds, SnapshotTypeOK
  <1> QED BY <1>1, <1>2, <1>3, <1>4, <1>5, <1>6, <1>7, <1>8, <1>9, <1>10, <1>11
          DEF Recover

LEMMA SnapshotTypeStep ==
    ASSUME SnapshotTypeOK, Captions, [SnapshotNext]_snapshotVars
    PROVE  SnapshotTypeOK' /\ Captions'
  <1>1. CASE \E i \in Images : Change(i)
    <2>1. PICK i \in Images : Change(i)
      BY <1>1
    <2> QED BY <2>1, ChangeMakes DEF Change, SnapshotTypeOK
  <1>2. CASE ~\E i \in Images : Change(i)
    <2>1. Captions'
      <3>1. UNCHANGED <<image, changes>>
        BY ZenonT(60), <1>2
           DEF SnapshotNext, snapshotVars, bounds, Create, Begin, Insert,
           CopyImage, StopCopying, FailCopying, WriteManifest, Rename, Commit,
           Cleanup, Mark, Cancel, Read, Damage, StartSnapshot, Recover, Launch,
           List, ListFails, Store, GiveUp, Spoil, FindStale, FailStale, Skip,
           Reconstruct, AppCrash, Verify, Condemn
      <3> QED BY <3>1 DEF Captions
    <2>2. CASE UNCHANGED snapshotVars
      BY <2>1, <2>2 DEF snapshotVars, SnapshotTypeOK
    <2>3. ASSUME NEW s \in Snapshots, Cancel(s) PROVE SnapshotTypeOK'
      BY <2>3, CancelMakes, CallCounts DEF Cancel, SnapshotTypeOK
    <2>4. ASSUME NEW s \in Snapshots, Read(s) PROVE SnapshotTypeOK'
      BY <2>4, CheckIs, CallCounts DEF Read, SnapshotTypeOK
    <2>5. ASSUME NEW s \in Snapshots, Damage(s) PROVE SnapshotTypeOK'
      <3>1. failures' \in 0..MaxFailures
        BY <2>5, FailureCounts DEF Damage
      <3> QED BY <2>5, <3>1, DamageMakes DEF Damage, bounds, SnapshotTypeOK
    <2>6. ASSUME NEW p \in Processes, NEW s \in Snapshots, StartSnapshot(p, s)
          PROVE  SnapshotTypeOK'
      BY <2>6, StartMakes DEF StartSnapshot, bounds, SnapshotTypeOK
    <2>7. CASE Verify
      <3>1. failures' \in 0..MaxFailures
        BY <2>7, FailureCounts DEF Verify
      <3>2. /\ check' = NoCheck \/ check' = [check EXCEPT !.pc = "bad"]
            /\ UNCHANGED <<image, snapshot, dir, task, start, shown, refailed>>
            /\ UNCHANGED <<changes, calls>>
        BY <2>7, VerifyMakes DEF bounds
      <3> QED BY <2>1, <3>1, <3>2, CheckIs DEF SnapshotTypeOK
    <2>8. CASE Condemn
      BY <2>1, <2>8, CondemnMakes, CheckIs DEF Condemn, bounds, SnapshotTypeOK
    <2>9. \/ UNCHANGED snapshotVars \/ Verify \/ Condemn
          \/ \E s \in Snapshots :
                \/ Create(s) \/ Cancel(s) \/ Read(s) \/ Damage(s)
                \/ \E p \in Processes : StartSnapshot(p, s)
          \/ \E p \in Processes : Recover(p) \/ AppCrash(p)
      BY <1>2 DEF SnapshotNext
    <2> QED BY <2>1, <2>2, <2>3, <2>4, <2>5, <2>6, <2>7, <2>8, <2>9,
               CreateTyped, RecoverTyped
  <1> QED BY <1>1, <1>2

-----------------------------------------------------------------------------
(* the inductive invariant *)

\* The directory of s holds files of the confirmed preview, and once it was
\* renamed all of them; what its manifest says is the preview.
FilesAre(s) ==
    /\ DOMAIN dir[s].files \subseteq DOMAIN shown[s].content
    /\ \A i \in DOMAIN dir[s].files :
          dir[s].files[i] \in {shown[s].content[i], Broken}
    /\ dir[s].place # "final" =>
          \A i \in DOMAIN dir[s].files : dir[s].files[i] = shown[s].content[i]
    /\ dir[s].manifest \in {Nothing, shown[s].content}
    /\ dir[s].place = "final" =>
          /\ dir[s].manifest = shown[s].content
          /\ DOMAIN dir[s].files = DOMAIN shown[s].content

\* Where the thread is says where the directory is.
PlaceIs(s) ==
    /\ shown[s] = NoPreview => task[s].pc = "none" /\ snapshot[s].status = "none"
    /\ shown[s] = NoPreview \/ task[s].pc \in {"begin", "insert"} =>
          dir[s] = NoDir
    /\ task[s].pc \in {"copy", "rename", "cleanup"} => dir[s].place = "creating"
    /\ task[s].pc = "copy" => dir[s].manifest = Nothing
    /\ task[s].pc = "rename" => /\ dir[s].files = shown[s].content
                                /\ dir[s].manifest = shown[s].content
    /\ task[s].pc = "commit" => dir[s].place = "final"
    /\ task[s].pc \in {"cleanup", "mark"} =>
          (task[s].end = "db_finalization_pending" <=> dir[s].place = "final")
    /\ task[s].pc \in {"copy", "rename"} =>
          snapshot[s].status \notin {"none", "canceled"}
    /\ dir[s].place = "final" => snapshot[s].status \notin {"none", "canceled"}

\* Rows of items are those of the preview, whoever has put them.
RowIs(s) ==
    /\ snapshot[s].items # Nothing => snapshot[s].items = shown[s].content
    /\ snapshot[s].issues \subseteq shown[s].issues
    /\ snapshot[s].hash \in {Nothing, shown[s].content}
    /\ snapshot[s].status = "completed" =>
          /\ snapshot[s].items = shown[s].content
          /\ snapshot[s].issues = shown[s].issues
          /\ dir[s].place = "final"

Kept(s) == FilesAre(s) /\ PlaceIs(s) /\ RowIs(s)

\* A start stores the rows of a renamed directory that was not COMPLETED.
StoresFinal ==
    \A p \in Processes : start[p].pc \in {"store", "spoil"} =>
        /\ \E s \in Snapshots : /\ start[p].current = {s}
                               /\ dir[s].place = "final"
        /\ start[p].loaded.status # "completed"

\* The renamed directories that nobody was working at when a start listed its
\* records are those that it has still to take up, or were taken up.
Settled(s) ==
    s \in refailed \/ snapshot[s].status \in {"completed", "corrupted"}
Listed(p, s) ==
    /\ shown[s] # NoPreview /\ task[s].pc = "none"
    /\ dir[s].place = "final" =>
          \/ start[p].pc # "stale" /\ s \in start[p].todo
          \/ start[p].pc = "store" /\ s \in start[p].current
          \/ /\ start[p].pc = "spoil" /\ s \in start[p].current
             /\ start[p].loaded.status # "corrupted"
          \/ Settled(s)
Lists(p) == start[p].pc \in {"recover", "store", "spoil", "stale"}
AllListed ==
    \A p \in Processes : IF Lists(p) THEN \A s \in start[p].dead : Listed(p, s)
                                    ELSE start[p].pc # "up" => start[p].dead = {}

\* A check has read rows, and so has a start that fails stale ones.
ChecksRows ==
    /\ \A s \in check.current : shown[s] # NoPreview
    /\ \A p \in Processes : start[p].pc = "stale" =>
          \A s \in start[p].todo : shown[s] # NoPreview

SnapshotInv ==
    /\ SnapshotTypeOK /\ Captions
    /\ \A s \in Snapshots : Kept(s)
    /\ StoresFinal /\ AllListed /\ ChecksRows

LEMMA SnapshotInvInit == SnapshotInit => SnapshotInv
  <1> SUFFICES ASSUME SnapshotInit PROVE SnapshotInv
    OBVIOUS
  <1>1. SnapshotTypeOK /\ Captions
    BY SnapshotTypeInit
  <1>2. \A s \in Snapshots : Kept(s)
    <2> TAKE s \in Snapshots
    <2>1. /\ snapshot[s] = NoRow /\ dir[s] = NoDir /\ shown[s] = NoPreview
          /\ task[s].pc = "none"
      BY DEF SnapshotInit
    <2>2. /\ dir[s].place = "none" /\ dir[s].files = Nothing
          /\ dir[s].manifest = Nothing
      BY <2>1 DEF NoDir
    <2>3. /\ snapshot[s].status = "none" /\ snapshot[s].items = Nothing
          /\ snapshot[s].issues = {} /\ snapshot[s].hash = Nothing
      BY <2>1 DEF NoRow
    <2>4. shown[s].content = Nothing /\ DOMAIN Nothing = {}
      BY <2>1, NothingIs DEF NoPreview
    <2>5. FilesAre(s)
      BY <2>2, <2>4 DEF FilesAre
    <2>6. PlaceIs(s)
      BY <2>1, <2>2, <2>3 DEF PlaceIs
    <2>7. RowIs(s)
      BY <2>3 DEF RowIs
    <2> QED BY <2>5, <2>6, <2>7 DEF Kept
  <1>3. StoresFinal /\ AllListed
    BY DEF SnapshotInit, StoresFinal, AllListed, Lists, StartAt
  <1>4. ChecksRows
    BY DEF SnapshotInit, ChecksRows, NoCheck, StartAt
  <1> QED BY <1>1, <1>2, <1>3, <1>4 DEF SnapshotInv

\* What a step leaves alone is kept.
LEMMA SameIsKept ==
    ASSUME NEW s \in Snapshots, Kept(s),
           dir'[s] = dir[s], snapshot'[s] = snapshot[s], task'[s] = task[s],
           shown'[s] = shown[s]
    PROVE  Kept(s)'
  BY DEF Kept, FilesAre, PlaceIs, RowIs

\* A task that ends or waits touches nothing else.
LEMMA TaskIsKept ==
    ASSUME NEW s \in Snapshots, Kept(s),
           dir'[s] = dir[s], snapshot'[s] = snapshot[s], shown'[s] = shown[s],
           task'[s].pc = "none"
    PROVE  Kept(s)'
  BY DEF Kept, FilesAre, PlaceIs, RowIs

\* A row that gets another status than COMPLETED, and keeps what it holds.
LEMMA StatusIsKept ==
    ASSUME NEW s \in Snapshots, Kept(s),
           dir'[s] = dir[s], shown'[s] = shown[s], task'[s] = task[s],
           snapshot'[s].items = snapshot[s].items,
           snapshot'[s].issues = snapshot[s].issues,
           snapshot'[s].hash \in {snapshot[s].hash, Nothing},
           snapshot'[s].status \notin {"none", "canceled", "completed"},
           shown[s] # NoPreview
    PROVE  Kept(s)'
  BY DEF Kept, FilesAre, PlaceIs, RowIs

LEMMA BeginKeeps ==
    ASSUME SnapshotTypeOK, NEW s \in Snapshots, Kept(s), Begin(s)
    PROVE  Kept(s)'
  <1>1. Goto(s, "insert") \/ Goto(s, "none")
    BY DEF Begin, EndTask
  <1>2. task'[s].pc \in {"insert", "none"}
    BY <1>1, GoesTo DEF TaskLabel
  <1>3. task[s].pc = "begin" /\ UNCHANGED <<dir, snapshot, shown>>
    BY DEF Begin
  <1> QED BY <1>2, <1>3 DEF Kept, FilesAre, PlaceIs, RowIs

LEMMA InsertKeeps ==
    ASSUME SnapshotTypeOK, NEW s \in Snapshots, Kept(s), Insert(s)
    PROVE  Kept(s)'
  <1>1. task'[s].pc = "copy"
    BY GoesTo DEF Insert, TaskLabel
  <1>2. task[s].pc = "insert" /\ shown' = shown
    BY DEF Insert
  <1>3. dir[s] = NoDir /\ shown[s] # NoPreview
    BY <1>2 DEF Kept, PlaceIs
  <1>4. /\ dir'[s].place = "creating" /\ dir'[s].files = Nothing
        /\ dir'[s].manifest = Nothing /\ DOMAIN Nothing = {}
    BY <1>3, InsertMakes, NothingIs DEF NoDir
  <1>5. FilesAre(s)'
    BY <1>4 DEF FilesAre
  <1>6. PlaceIs(s)'
    BY <1>1, <1>2, <1>3, <1>4, InsertMakes DEF PlaceIs
  <1>7. RowIs(s)'
    BY <1>2, InsertMakes DEF Kept, RowIs
  <1> QED BY <1>5, <1>6, <1>7 DEF Kept

LEMMA CopyKeeps ==
    ASSUME SnapshotTypeOK, NEW s \in Snapshots, Kept(s), CopyImage(s)
    PROVE  Kept(s)'
  <1>1. /\ task[s].pc = "copy"
        /\ UNCHANGED <<snapshot, task, shown>>
    BY DEF CopyImage
  <1>2. PICK i \in DOMAIN shown[s].content \ DOMAIN dir[s].files :
           /\ DOMAIN dir'[s].files = DOMAIN dir[s].files \cup {i}
           /\ \A j \in DOMAIN dir[s].files : dir'[s].files[j] = dir[s].files[j]
           /\ dir'[s].files[i] = shown[s].content[i]
    BY CopyMakes
  <1>3. /\ dir[s].place = "creating" /\ dir'[s].place = "creating"
        /\ dir'[s].manifest = dir[s].manifest
    BY <1>1, CopyMakes DEF Kept, PlaceIs
  <1>4. FilesAre(s)'
    BY <1>1, <1>2, <1>3 DEF Kept, FilesAre
  <1>5. PlaceIs(s)'
    BY <1>1, <1>3 DEF Kept, PlaceIs
  <1>6. RowIs(s)'
    BY <1>1, <1>3 DEF Kept, RowIs
  <1> QED BY <1>4, <1>5, <1>6 DEF Kept

LEMMA EndCopyKeeps ==
    ASSUME SnapshotTypeOK, NEW s \in Snapshots, Kept(s),
           StopCopying(s) \/ FailCopying(s)
    PROVE  Kept(s)'
  <1>1. /\ task[s].pc = "copy"
        /\ UNCHANGED <<dir, snapshot, shown>>
    BY DEF StopCopying, FailCopying
  <1>2. EndAs(s, "cleanup", "canceled") \/ EndAs(s, "cleanup", "failed")
    BY DEF StopCopying, FailCopying
  <1>3. task'[s].pc = "cleanup" /\ task'[s].end # "db_finalization_pending"
    BY <1>2, EndsTaskAs DEF TaskLabel
  <1>4. PlaceIs(s)'
    BY <1>1, <1>3 DEF Kept, PlaceIs
  <1> QED BY <1>1, <1>4 DEF Kept, FilesAre, RowIs

LEMMA ManifestKeeps ==
    ASSUME SnapshotTypeOK, NEW s \in Snapshots, Kept(s), WriteManifest(s)
    PROVE  Kept(s)'
  <1>1. /\ task[s].pc = "copy" /\ Left(s) = {}
        /\ UNCHANGED <<snapshot, shown>>
    BY DEF WriteManifest
  <1>2. task'[s].pc = "rename"
    BY GoesTo DEF WriteManifest, TaskLabel
  <1>3. dir[s].files \in Contents /\ shown[s].content \in Contents
    BY DEF SnapshotTypeOK, Dir, Preview
  <1>4. dir[s].place = "creating"
    BY <1>1 DEF Kept, PlaceIs
  <1>5. DOMAIN shown[s].content = DOMAIN dir[s].files
    BY <1>1 DEF Left, Kept, FilesAre
  <1>6. dir[s].files = shown[s].content
    BY <1>3, <1>4, <1>5, SameContents DEF Kept, FilesAre
  <1>7. FilesAre(s)'
    BY <1>1, <1>4, <1>6, ManifestMakes DEF Kept, FilesAre
  <1>8. PlaceIs(s)'
    BY <1>1, <1>2, <1>4, <1>6, ManifestMakes DEF Kept, PlaceIs
  <1>9. RowIs(s)'
    BY <1>1, ManifestMakes DEF Kept, RowIs
  <1> QED BY <1>7, <1>8, <1>9 DEF Kept

LEMMA RenameKeeps ==
    ASSUME SnapshotTypeOK, NEW s \in Snapshots, Kept(s), Rename(s)
    PROVE  Kept(s)'
  <1>1. task[s].pc = "rename" /\ UNCHANGED <<snapshot, shown>>
    BY DEF Rename
  <1>2. /\ dir[s].place = "creating" /\ dir[s].files = shown[s].content
        /\ dir[s].manifest = shown[s].content
        /\ shown[s] # NoPreview
        /\ snapshot[s].status \notin {"none", "canceled"}
    BY <1>1 DEF Kept, PlaceIs
  <1>3. FilesAre(s)'
    BY <1>1, <1>2, RenameMakes DEF FilesAre
  <1>4. PlaceIs(s)'
    BY <1>1, <1>2, RenameMakes DEF PlaceIs
  <1>5. RowIs(s)'
    BY <1>1, <1>2 DEF Kept, RowIs
  <1> QED BY <1>3, <1>4, <1>5 DEF Kept

LEMMA CommitKeeps ==
    ASSUME SnapshotTypeOK, NEW s \in Snapshots, Kept(s), Commit(s)
    PROVE  Kept(s)'
  <1>1. task[s].pc = "commit" /\ UNCHANGED <<dir, shown>>
    BY DEF Commit
  <1>2. /\ dir[s].place = "final" /\ dir[s].manifest = shown[s].content
        /\ shown[s] # NoPreview
    BY <1>1 DEF Kept, PlaceIs, FilesAre
  <1>3. FilesAre(s)'
    BY <1>1 DEF Kept, FilesAre
  <1>4. PlaceIs(s)'
    BY <1>1, <1>2, CommitMakes DEF Kept, PlaceIs
  <1>5. RowIs(s)'
    BY <1>1, <1>2, CommitMakes DEF Kept, RowIs
  <1> QED BY <1>3, <1>4, <1>5 DEF Kept

LEMMA CleanupKeeps ==
    ASSUME SnapshotTypeOK, NEW s \in Snapshots, Kept(s), Cleanup(s)
    PROVE  Kept(s)'
  <1>1. task[s].pc = "cleanup" /\ UNCHANGED <<snapshot, shown>>
    BY DEF Cleanup
  <1>2. task'[s].pc = "mark" /\ task'[s].end = task[s].end
    BY GoesTo DEF Cleanup, TaskLabel
  <1>3. /\ dir[s].place = "creating" /\ shown[s] # NoPreview
        /\ task[s].end # "db_finalization_pending"
    BY <1>1 DEF Kept, PlaceIs
  <1>4. dir'[s] = NoDir \/ dir'[s] = dir[s]
    BY CleanupMakes
  <1>5. /\ NoDir.place = "none" /\ NoDir.files = Nothing
        /\ NoDir.manifest = Nothing /\ DOMAIN Nothing = {}
    BY NothingIs DEF NoDir
  <1>6. FilesAre(s)'
    BY <1>1, <1>4, <1>5 DEF Kept, FilesAre
  <1>7. PlaceIs(s)'
    BY <1>1, <1>2, <1>3, <1>4, <1>5 DEF PlaceIs
  <1>8. RowIs(s)'
    BY <1>1, <1>3 DEF Kept, RowIs
  <1> QED BY <1>6, <1>7, <1>8 DEF Kept

LEMMA MarkKeeps ==
    ASSUME SnapshotTypeOK, NEW s \in Snapshots, Kept(s), Mark(s)
    PROVE  Kept(s)'
  <1>1. task[s].pc = "mark" /\ UNCHANGED <<dir, shown>>
    BY DEF Mark
  <1>2. /\ task[s].end = "db_finalization_pending" <=> dir[s].place = "final"
        /\ shown[s] # NoPreview
        /\ task[s].end \in {"failed", "canceled", "db_finalization_pending"}
    BY <1>1 DEF Kept, PlaceIs, SnapshotTypeOK, Task
  <1>3. CASE snapshot'[s] = snapshot[s]
    BY <1>1, <1>3, MarkMakes, TaskIsKept
  <1>4. CASE snapshot'[s].status = task[s].end
    <2>1. FilesAre(s)'
      BY <1>1 DEF Kept, FilesAre
    <2>2. PlaceIs(s)'
      BY <1>1, <1>2, <1>4, MarkMakes DEF Kept, PlaceIs
    <2>3. RowIs(s)'
      BY <1>1, <1>2, <1>4, MarkMakes DEF Kept, RowIs
    <2> QED BY <2>1, <2>2, <2>3 DEF Kept
  <1> QED BY <1>3, <1>4, MarkMakes

LEMMA DamageKeeps ==
    ASSUME SnapshotTypeOK, NEW s \in Snapshots, Kept(s), Damage(s)
    PROVE  Kept(s)'
  <1>1. UNCHANGED <<snapshot, task, shown>>
    BY DEF Damage
  <1>2. dir[s] # NoDir
    BY DamageMakes DEF NoDir
  <1>3. FilesAre(s)'
    BY <1>1, DamageMakes DEF Kept, FilesAre
  <1>4. PlaceIs(s)'
    BY <1>1, <1>2, DamageMakes DEF Kept, PlaceIs
  <1>5. RowIs(s)'
    BY <1>1, DamageMakes DEF Kept, RowIs
  <1> QED BY <1>3, <1>4, <1>5 DEF Kept

LEMMA StartKeeps ==
    ASSUME SnapshotTypeOK, NEW p \in Processes, NEW s \in Snapshots, Kept(s),
           StartSnapshot(p, s)
    PROVE  Kept(s)'
  <1>1. /\ shown[s] = NoPreview /\ UNCHANGED <<snapshot, dir>>
    BY DEF StartSnapshot
  <1>2. /\ dir[s] = NoDir /\ snapshot[s].status = "none"
    BY <1>1 DEF Kept, PlaceIs
  <1>3. /\ dir[s].place = "none" /\ dir[s].files = Nothing
        /\ dir[s].manifest = Nothing /\ DOMAIN Nothing = {}
    BY <1>2, NothingIs DEF NoDir
  <1>4. /\ snapshot[s].items = Nothing /\ snapshot[s].issues = {}
        /\ snapshot[s].hash = Nothing
    BY <1>1 DEF Kept, RowIs, NoPreview
  <1>5. FilesAre(s)'
    BY <1>1, <1>3 DEF FilesAre
  <1>6. PlaceIs(s)'
    BY <1>1, <1>2, <1>3, StartMakes DEF PlaceIs
  <1>7. RowIs(s)'
    BY <1>1, <1>2, <1>4 DEF RowIs
  <1> QED BY <1>5, <1>6, <1>7 DEF Kept

LEMMA CancelKeeps ==
    ASSUME SnapshotTypeOK, NEW s \in Snapshots, NEW t \in Snapshots, Kept(t),
           Cancel(s)
    PROVE  Kept(t)'
  <1>1. UNCHANGED <<dir, task, shown>>
    BY DEF Cancel
  <1>2. /\ snapshot'[t].status = snapshot[t].status
        /\ snapshot'[t].items = snapshot[t].items
        /\ snapshot'[t].hash = snapshot[t].hash
        /\ snapshot'[t].issues = snapshot[t].issues
    BY CancelMakes
  <1> QED BY <1>1, <1>2 DEF Kept, FilesAre, PlaceIs, RowIs

LEMMA FailStaleKeeps ==
    ASSUME SnapshotTypeOK, ChecksRows, NEW p \in Processes,
           NEW t \in Snapshots, Kept(t), FailStale(p)
    PROVE  Kept(t)'
  <1>1. start[p].pc = "stale" /\ UNCHANGED <<dir, task, shown>>
    BY DEF FailStale
  <1>2. CASE snapshot'[t] = snapshot[t]
    BY <1>1, <1>2, SameIsKept
  <1>3. CASE t \in start[p].todo /\ snapshot'[t].status = "failed"
    <2>1. shown[t] # NoPreview
      BY <1>1, <1>3 DEF ChecksRows
    <2> QED BY <1>1, <1>3, <2>1, FailStaleMakes, StatusIsKept
  <1> QED BY <1>2, <1>3, FailStaleMakes

\* A digest is cleared.
LEMMA ClearedIsKept ==
    ASSUME NEW s \in Snapshots, Kept(s),
           dir'[s] = dir[s], shown'[s] = shown[s], task'[s] = task[s],
           snapshot'[s].items = snapshot[s].items,
           snapshot'[s].issues = snapshot[s].issues,
           snapshot'[s].hash \in {snapshot[s].hash, Nothing},
           snapshot'[s].status = snapshot[s].status
    PROVE  Kept(s)'
  BY DEF Kept, FilesAre, PlaceIs, RowIs

LEMMA CondemnKeeps ==
    ASSUME SnapshotTypeOK, ChecksRows, NEW t \in Snapshots, Kept(t), Condemn
    PROVE  Kept(t)'
  <1>1. UNCHANGED <<dir, task, shown>>
    BY DEF Condemn
  <1>2. CASE snapshot'[t].status = snapshot[t].status
    BY <1>1, <1>2, CondemnMakes, ClearedIsKept
  <1>3. CASE snapshot'[t].status = "corrupted" /\ t \in check.current
    <2>1. shown[t] # NoPreview
      BY <1>3 DEF ChecksRows
    <2> QED BY <1>1, <1>3, <2>1, CondemnMakes, StatusIsKept
  <1> QED BY <1>2, <1>3, CondemnMakes

LEMMA StoreKeeps ==
    ASSUME SnapshotTypeOK, StoresFinal, NEW p \in Processes,
           NEW t \in Snapshots, Kept(t), Store(p)
    PROVE  Kept(t)'
  <1>1. start[p].pc = "store" /\ UNCHANGED <<dir, task, shown>>
    BY DEF Store
  <1>2. PICK s \in start[p].current :
           /\ \A u \in Snapshots \ {s} : snapshot'[u] = snapshot[u]
           /\ snapshot'[s] = Restored(s, start[p].loaded)
           /\ snapshot'[s].items = dir[s].manifest
    BY StoreMakes
  <1>3. /\ dir[s].place = "final" /\ s \in Snapshots
        /\ start[p].loaded.status # "completed" /\ start[p].loaded \in Loaded
    BY <1>1, <1>2 DEF StoresFinal, SnapshotTypeOK, Start
  <1>4. CASE t # s
    BY <1>1, <1>2, <1>4, SameIsKept
  <1>5. CASE t = s
    <2>1. /\ dir[t].manifest = shown[t].content
          /\ snapshot[t].issues \subseteq shown[t].issues
          /\ snapshot[t].hash \in {Nothing, shown[t].content}
          /\ shown[t] # NoPreview /\ dir[t].place = "final"
      BY <1>3, <1>5 DEF Kept, FilesAre, RowIs, PlaceIs, NoDir
    <2>2. /\ snapshot'[t].status = "completed"
          /\ snapshot'[t].items = shown[t].content
          /\ snapshot'[t].hash \in {snapshot[t].hash, shown[t].content}
          /\ snapshot'[t].issues = shown[t].issues
      <3> DEFINE new == Restored(t, start[p].loaded)
      <3>1. /\ new.status = "completed"
            /\ new.hash \in {snapshot[t].hash, shown[t].content}
            /\ new.issues = shown[t].issues
        BY <1>3, <1>5, <2>1, IsRestored
      <3> HIDE DEF new
      <3>2. snapshot'[t] = new /\ snapshot'[t].items = shown[t].content
        BY <1>2, <1>5, <2>1 DEF new
      <3> QED BY <3>1, <3>2
    <2>3. task[t].pc \notin {"begin", "insert"}
      BY <2>1 DEF Kept, PlaceIs, NoDir
    <2> QED BY <1>1, <2>1, <2>2, <2>3 DEF Kept, FilesAre, RowIs, PlaceIs
  <1> QED BY <1>4, <1>5

LEMMA SpoilKeeps ==
    ASSUME SnapshotTypeOK, StoresFinal, NEW p \in Processes,
           NEW t \in Snapshots, Kept(t), Spoil(p)
    PROVE  Kept(t)'
  <1>1. start[p].pc = "spoil" /\ UNCHANGED <<dir, task, shown>>
    BY DEF Spoil
  <1>2. PICK s \in start[p].current :
           /\ \A u \in Snapshots \ {s} : snapshot'[u] = snapshot[u]
           /\ snapshot'[s].status \in {snapshot[s].status, "corrupted"}
           /\ snapshot'[s].items = snapshot[s].items
           /\ snapshot'[s].issues = snapshot[s].issues
           /\ snapshot'[s].hash \in {snapshot[s].hash, Nothing}
    BY SpoilMakes
  <1>3. dir[s].place = "final" /\ s \in Snapshots
    BY <1>1, <1>2 DEF StoresFinal
  <1>4. CASE t # s
    BY <1>1, <1>2, <1>4, SameIsKept
  <1>5. CASE t = s /\ snapshot'[t].status = snapshot[t].status
    BY <1>1, <1>2, <1>5, ClearedIsKept
  <1>6. CASE t = s /\ snapshot'[t].status = "corrupted"
    <2>1. shown[t] # NoPreview
      BY <1>3, <1>6 DEF Kept, PlaceIs, NoDir
    <2> QED BY <1>1, <1>2, <1>6, <2>1, StatusIsKept
  <1> QED BY <1>2, <1>4, <1>5, <1>6

LEMMA CrashKeeps ==
    ASSUME SnapshotTypeOK, NEW p \in Processes, NEW t \in Snapshots, Kept(t),
           AppCrash(p)
    PROVE  Kept(t)'
  <1>1. UNCHANGED <<dir, snapshot, shown>>
    BY DEF AppCrash
  <1> QED BY <1>1, AppCrashMakes, TaskIsKept, SameIsKept

\* A thread works at one snapshot.
LEMMA CreateLeaves ==
    ASSUME SnapshotTypeOK, NEW s \in Snapshots, Create(s)
    PROVE  /\ \A t \in Snapshots \ {s} : /\ dir'[t] = dir[t]
                                         /\ snapshot'[t] = snapshot[t]
                                         /\ task'[t] = task[t]
           /\ UNCHANGED <<shown, start, check>>
           /\ task[s].pc # "none"
  <1>1. CASE Begin(s)
    <2>1. Goto(s, "insert") \/ Goto(s, "none")
      BY <1>1 DEF Begin, EndTask
    <2>2. \A t \in Snapshots \ {s} : task'[t] = task[t]
      BY <2>1, GoesTo DEF TaskLabel
    <2> QED BY <1>1, <2>2 DEF Begin
  <1>2. CASE Insert(s)
    BY <1>2, InsertMakes, GoesTo DEF Insert, TaskLabel
  <1>3. CASE CopyImage(s)
    BY <1>3, CopyMakes DEF CopyImage
  <1>4. CASE StopCopying(s) \/ FailCopying(s)
    <2>1. EndAs(s, "cleanup", "canceled") \/ EndAs(s, "cleanup", "failed")
      BY <1>4 DEF StopCopying, FailCopying
    <2>2. \A t \in Snapshots \ {s} : task'[t] = task[t]
      BY <2>1, EndsTaskAs DEF TaskLabel
    <2> QED BY <1>4, <2>2 DEF StopCopying, FailCopying
  <1>5. CASE WriteManifest(s)
    BY <1>5, ManifestMakes, GoesTo DEF WriteManifest, TaskLabel
  <1>6. CASE Rename(s)
    BY <1>6, RenameMakes DEF Rename
  <1>7. CASE Commit(s)
    BY <1>7, CommitMakes DEF Commit
  <1>8. CASE Cleanup(s)
    BY <1>8, CleanupMakes, GoesTo DEF Cleanup, TaskLabel
  <1>9. CASE Mark(s)
    BY <1>9, MarkMakes DEF Mark
  <1> QED BY <1>1, <1>2, <1>3, <1>4, <1>5, <1>6, <1>7, <1>8, <1>9 DEF Create

LEMMA CreateKeeps ==
    ASSUME SnapshotTypeOK, NEW s \in Snapshots, NEW t \in Snapshots, Kept(t),
           Create(s)
    PROVE  Kept(t)'
  <1>1. CASE t # s
    BY <1>1, CreateLeaves, SameIsKept
  <1>2. CASE t = s
    BY <1>2, BeginKeeps, InsertKeeps, CopyKeeps, EndCopyKeeps, ManifestKeeps,
       RenameKeeps, CommitKeeps, CleanupKeeps, MarkKeeps DEF Create
  <1> QED BY <1>1, <1>2

\* A start changes its own record, and no directory, task or preview.
LEMMA RecoverLeaves ==
    ASSUME SnapshotTypeOK, NEW p \in Processes, Recover(p)
    PROVE  /\ UNCHANGED <<dir, task, shown, check>>
           /\ \A q \in Processes \ {p} : start'[q] = start[q]
           /\ Store(p) \/ Spoil(p) \/ FailStale(p) \/ snapshot' = snapshot
           /\ FailStale(p) \/ refailed' = refailed
  <1>1. CASE Launch(p)
    BY <1>1, LaunchMakes DEF Launch
  <1>2. CASE List(p)
    BY <1>2, ListMakes DEF List
  <1>3. CASE Store(p)
    BY <1>3, StoreMakes DEF Store
  <1>4. CASE FailStale(p)
    BY <1>4, FailStaleStarts DEF FailStale
  <1>5. CASE \E s \in Snapshots : Skip(p, s)
    BY <1>5, SkipMakes DEF Skip
  <1>6. CASE \E s \in Snapshots : Reconstruct(p, s)
    BY <1>6, ReconstructMakes DEF Reconstruct
  <1>7. CASE ListFails(p)
    BY <1>7, ListFailsMakes DEF ListFails
  <1>8. CASE GiveUp(p)
    BY <1>8, GiveUpMakes DEF GiveUp
  <1>9. CASE Spoil(p)
    BY <1>9, SpoilMakes DEF Spoil
  <1>10. CASE FindStale(p)
    BY <1>10, FindStaleMakes DEF FindStale
  <1> QED BY <1>1, <1>2, <1>3, <1>4, <1>5, <1>6, <1>7, <1>8, <1>9, <1>10
          DEF Recover

LEMMA RecoverKeeps ==
    ASSUME SnapshotTypeOK, StoresFinal, ChecksRows, NEW p \in Processes,
           NEW t \in Snapshots, Kept(t), Recover(p)
    PROVE  Kept(t)'
  <1>1. CASE snapshot' = snapshot
    BY <1>1, RecoverLeaves, SameIsKept
  <1> QED BY <1>1, RecoverLeaves, StoreKeeps, SpoilKeeps, FailStaleKeeps

LEMMA EveryStepKeeps ==
    ASSUME SnapshotInv, [SnapshotNext]_snapshotVars
    PROVE  \A t \in Snapshots : Kept(t)'
  <1> TAKE t \in Snapshots
  <1>1. SnapshotTypeOK /\ StoresFinal /\ ChecksRows /\ Kept(t)
    BY DEF SnapshotInv
  <1>2. CASE UNCHANGED <<dir, snapshot, task, shown>>
    BY <1>1, <1>2, SameIsKept
  <1>3. CASE \E s \in Snapshots : Create(s)
    BY <1>1, <1>3, CreateKeeps
  <1>4. CASE \E s \in Snapshots : Cancel(s)
    BY <1>1, <1>4, CancelKeeps
  <1>5. ASSUME NEW s \in Snapshots, Damage(s) PROVE Kept(t)'
    <2>1. CASE t = s
      BY <1>1, <1>5, <2>1, DamageKeeps
    <2>2. CASE t # s
      <3>1. dir'[t] = dir[t] /\ UNCHANGED <<snapshot, task, shown>>
        BY <1>1, <1>5, <2>2, DamageMakes DEF Damage
      <3> QED BY <1>1, <3>1, SameIsKept
    <2> QED BY <2>1, <2>2
  <1>6. ASSUME NEW s \in Snapshots, NEW p \in Processes, StartSnapshot(p, s)
        PROVE  Kept(t)'
    <2>1. CASE t = s
      BY <1>1, <1>6, <2>1, StartKeeps
    <2>2. CASE t # s
      <3>1. /\ UNCHANGED <<snapshot, dir>>
            /\ task'[t] = task[t] /\ shown'[t] = shown[t]
        BY <1>1, <1>6, <2>2, StartMakes DEF StartSnapshot
      <3> QED BY <1>1, <3>1, SameIsKept
    <2> QED BY <2>1, <2>2
  <1>7. CASE \E p \in Processes : Recover(p)
    BY <1>1, <1>7, RecoverKeeps
  <1>8. CASE \E p \in Processes : AppCrash(p)
    BY <1>1, <1>8, CrashKeeps
  <1>9. CASE Condemn
    BY <1>1, <1>9, CondemnKeeps
  <1>10. \A s \in Snapshots : Read(s) => UNCHANGED <<dir, snapshot, task, shown>>
    BY DEF Read
  <1>11. Verify => UNCHANGED <<dir, snapshot, task, shown>>
    BY VerifyMakes
  <1>12. \A i \in Images : Change(i) => UNCHANGED <<dir, snapshot, task, shown>>
    BY DEF Change
  <1>13. UNCHANGED snapshotVars => UNCHANGED <<dir, snapshot, task, shown>>
    BY DEF snapshotVars
  <1> QED BY <1>2, <1>3, <1>4, <1>5, <1>6, <1>7, <1>8, <1>9, <1>10, <1>11,
             <1>12, <1>13 DEF SnapshotNext

\* What was renamed remains, and a preview that was confirmed is not replaced.
LEMMA FinalRemains ==
    ASSUME SnapshotInv, [SnapshotNext]_snapshotVars, NEW t \in Snapshots
    PROVE  /\ dir[t].place = "final" => dir'[t].place = "final"
           /\ shown[t] # NoPreview => shown'[t] = shown[t]
  <1>1. SnapshotTypeOK /\ Kept(t)
    BY DEF SnapshotInv
  <1>2. CASE UNCHANGED <<dir, shown>>
    BY <1>2
  <1>3. ASSUME NEW s \in Snapshots, Create(s)
        PROVE  dir[t].place = "final" => dir'[t].place = "final"
    <2>1. CASE t # s
      BY <1>1, <1>3, <2>1, CreateLeaves
    <2>2. CASE t = s /\ (Begin(s) \/ StopCopying(s) \/ FailCopying(s)
                         \/ Commit(s) \/ Mark(s))
      BY <2>2 DEF Begin, StopCopying, FailCopying, Commit, Mark
    <2>3. CASE t = s /\ Insert(s)
      BY <1>1, <2>3 DEF Insert, Kept, PlaceIs, NoDir
    <2>4. CASE t = s /\ Cleanup(s)
      BY <1>1, <2>4 DEF Cleanup, Kept, PlaceIs
    <2>5. CASE t = s /\ (CopyImage(s) \/ WriteManifest(s) \/ Rename(s))
      BY <1>1, <2>5, CopyMakes, ManifestMakes, RenameMakes
    <2> QED BY <1>3, <2>1, <2>2, <2>3, <2>4, <2>5 DEF Create
  <1>4. CASE \E s \in Snapshots : Create(s)
    BY <1>1, <1>3, <1>4, CreateLeaves
  <1>5. ASSUME NEW s \in Snapshots, Damage(s)
        PROVE  UNCHANGED shown /\ dir'[t].place = dir[t].place
    BY <1>1, <1>5, DamageMakes DEF Damage
  <1>6. ASSUME NEW s \in Snapshots, NEW p \in Processes, StartSnapshot(p, s)
        PROVE  UNCHANGED dir /\ (shown[t] # NoPreview => shown'[t] = shown[t])
    BY <1>1, <1>6, StartMakes DEF StartSnapshot
  <1>7. \/ UNCHANGED <<dir, shown>> \/ \E s \in Snapshots : Create(s)
        \/ \E s \in Snapshots : Damage(s)
        \/ \E s \in Snapshots, p \in Processes : StartSnapshot(p, s)
    <2>1. \A s \in Snapshots : Cancel(s) \/ Read(s) => UNCHANGED <<dir, shown>>
      BY DEF Cancel, Read
    <2>2. \A p \in Processes : Recover(p) => UNCHANGED <<dir, shown>>
      BY <1>1, RecoverLeaves
    <2>3. \A p \in Processes : AppCrash(p) => UNCHANGED <<dir, shown>>
      BY DEF AppCrash
    <2>4. Verify => UNCHANGED <<dir, shown>>
      BY VerifyMakes
    <2>5. Condemn => UNCHANGED <<dir, shown>>
      BY DEF Condemn
    <2>6. \A i \in Images : Change(i) => UNCHANGED <<dir, shown>>
      BY DEF Change
    <2> QED BY <2>1, <2>2, <2>3, <2>4, <2>5, <2>6
    DEF SnapshotNext, snapshotVars
  <1> QED BY <1>2, <1>4, <1>5, <1>6, <1>7

\* A snapshot whose thread has ended is not renamed any more, and one that was
\* taken up or condemned remains so, or another start has failed it.
LEMMA DeadRemains ==
    ASSUME SnapshotInv, [SnapshotNext]_snapshotVars, NEW t \in Snapshots,
           shown[t] # NoPreview, task[t].pc = "none"
    PROVE  /\ task'[t].pc = "none"
           /\ dir'[t].place = "final" => dir[t].place = "final"
           /\ Settled(t) => Settled(t)'
  <1> DEFINE Same == /\ UNCHANGED <<dir, task, refailed>>
                     /\ snapshot'[t].status = snapshot[t].status
  <1>1. SnapshotTypeOK /\ ChecksRows
    BY DEF SnapshotInv
  <1>2. \A s \in Snapshots : Create(s) =>
           /\ dir'[t] = dir[t] /\ snapshot'[t] = snapshot[t] /\ task'[t] = task[t]
           /\ refailed' = refailed
    <2>1. \A s \in Snapshots : Create(s) => refailed' = refailed
      BY Zenon DEF Create, Begin, Insert, CopyImage, StopCopying, FailCopying,
         WriteManifest, Rename, Commit, Cleanup, Mark
    <2> QED BY <1>1, <2>1, CreateLeaves
  <1>3. \A s \in Snapshots : Cancel(s) => Same
    BY <1>1, CancelMakes DEF Cancel
  <1>4. \A s \in Snapshots : Damage(s) =>
           /\ UNCHANGED <<task, snapshot, refailed>>
           /\ dir'[t].place = dir[t].place
    BY <1>1, DamageMakes DEF Damage
  <1>5. \A p \in Processes, s \in Snapshots : StartSnapshot(p, s) =>
           UNCHANGED <<dir, snapshot, refailed>> /\ task'[t] = task[t]
    BY <1>1, StartMakes DEF StartSnapshot
  <1>6. ASSUME NEW p \in Processes, Recover(p)
        PROVE  UNCHANGED <<dir, task>> /\ (Settled(t) => Settled(t)')
    <2>1. CASE Store(p)
      <3>1. PICK s \in start[p].current :
               /\ \A u \in Snapshots \ {s} : snapshot'[u] = snapshot[u]
               /\ snapshot'[s] = Restored(s, start[p].loaded)
        BY <1>1, <2>1, StoreMakes
      <3>2. s \in Snapshots /\ start[p].loaded \in Loaded
        BY <1>1 DEF SnapshotTypeOK, Start
      <3>3. snapshot'[s].status \in {snapshot[s].status, "completed"}
        BY <1>1, <3>1, <3>2, IsRestored
      <3> QED BY <2>1, <3>1, <3>2, <3>3 DEF Store, Settled
    <2>2. CASE FailStale(p)
      BY <1>1, <1>6, <2>2, FailStaleMakes, RecoverLeaves DEF Settled
    <2>3. CASE Spoil(p)
      <3>1. PICK s \in start[p].current :
               /\ \A u \in Snapshots \ {s} : snapshot'[u] = snapshot[u]
               /\ snapshot'[s].status \in {snapshot[s].status, "corrupted"}
        BY <1>1, <2>3, SpoilMakes
      <3> QED BY <2>3, <3>1 DEF Spoil, Settled
    <2>4. CASE snapshot' = snapshot /\ refailed' = refailed
      BY <1>1, <1>6, <2>4, RecoverLeaves DEF Settled
    <2> QED BY <1>1, <1>6, <2>1, <2>2, <2>3, <2>4, RecoverLeaves
  <1>7. \A p \in Processes : AppCrash(p) =>
           UNCHANGED <<dir, snapshot, refailed>> /\ task'[t].pc = "none"
    BY <1>1, AppCrashMakes DEF AppCrash
  <1>8. Condemn => /\ UNCHANGED <<dir, task, refailed>>
                   /\ snapshot'[t].status \in {snapshot[t].status, "corrupted"}
    BY <1>1, CondemnMakes DEF Condemn
  <1>9. \/ UNCHANGED snapshotVars \/ Verify
        \/ \E s \in Snapshots : Read(s) \/ \E i \in Images : Change(i)
        => Same
    BY VerifyMakes DEF snapshotVars, Read, Change
  <1> HIDE DEF Same
  <1>10. Same => /\ UNCHANGED <<dir, task>> /\ (Settled(t) => Settled(t)')
    BY DEF Same, Settled
  <1>11. /\ refailed' = refailed
         /\ snapshot'[t].status \in {snapshot[t].status, "corrupted"}
         => (Settled(t) => Settled(t)')
    BY DEF Settled
  <1> QED BY <1>2, <1>3, <1>4, <1>5, <1>6, <1>7, <1>8, <1>9, <1>10, <1>11
          DEF SnapshotNext

\* The record of a start is changed by that application alone.
LEMMA StartChanges ==
    ASSUME SnapshotInv, [SnapshotNext]_snapshotVars, NEW p \in Processes
    PROVE  start'[p] = start[p] \/ Recover(p) \/ AppCrash(p)
  <1>1. SnapshotTypeOK
    BY DEF SnapshotInv
  <1>2. \A s \in Snapshots :
           Create(s) \/ Cancel(s) \/ Read(s) \/ Damage(s) => UNCHANGED start
    BY <1>1, CreateLeaves DEF Cancel, Read, Damage
  <1>3. \A s \in Snapshots, q \in Processes :
           StartSnapshot(q, s) => UNCHANGED start
    BY DEF StartSnapshot
  <1>4. \A q \in Processes \ {p} :
           Recover(q) \/ AppCrash(q) => start'[p] = start[p]
    BY <1>1, RecoverLeaves, AppCrashMakes
  <1>5. Verify \/ Condemn \/ UNCHANGED snapshotVars => UNCHANGED start
    BY VerifyMakes DEF Condemn, snapshotVars
  <1>6. \A i \in Images : Change(i) => UNCHANGED start
    BY DEF Change
  <1> QED BY <1>2, <1>3, <1>4, <1>5, <1>6 DEF SnapshotNext

LEMMA StoresFinalStep ==
    ASSUME SnapshotInv, [SnapshotNext]_snapshotVars
    PROVE  StoresFinal'
  <1> SUFFICES ASSUME NEW p \in Processes, start'[p].pc \in {"store", "spoil"}
               PROVE  /\ \E s \in Snapshots : /\ start'[p].current = {s}
                                              /\ dir'[s].place = "final"
                      /\ start'[p].loaded.status # "completed"
    BY DEF StoresFinal
  <1>1. SnapshotTypeOK /\ StoresFinal
    BY DEF SnapshotInv
  <1>2. CASE start'[p] = start[p]
    BY <1>1, <1>2, FinalRemains DEF StoresFinal
  <1>3. ASSUME NEW s \in Snapshots, Reconstruct(p, s)
        PROVE  /\ start'[p].current = {s} /\ dir'[s].place = "final"
               /\ start'[p].loaded.status # "completed"
    BY <1>1, <1>3, ReconstructMakes DEF Reconstruct
  <1>4. CASE GiveUp(p)
    <2>1. start[p].pc = "store" /\ UNCHANGED dir
      BY <1>4 DEF GiveUp
    <2> QED BY <1>1, <1>4, <2>1, GiveUpMakes DEF StoresFinal
  <1>5. /\ ~Launch(p) /\ ~List(p) /\ ~Store(p) /\ ~FailStale(p) /\ ~AppCrash(p)
        /\ ~ListFails(p) /\ ~Spoil(p) /\ ~FindStale(p)
        /\ \A s \in Snapshots : ~Skip(p, s)
    BY <1>1, LaunchMakes, ListMakes, StoreMakes, FailStaleStarts,
       AppCrashMakes, SkipMakes, ListFailsMakes, SpoilMakes, FindStaleMakes
  <1> QED BY <1>2, <1>3, <1>4, <1>5, StartChanges DEF Recover

\* What a start has not taken up is what it has still to take up.
LEMMA ListedStep ==
    ASSUME SnapshotInv, [SnapshotNext]_snapshotVars, NEW p \in Processes,
           start'[p].pc \in {"recover", "store", "spoil", "stale"},
           NEW s \in start'[p].dead
    PROVE  Listed(p, s)'
  <1>1. /\ SnapshotTypeOK /\ StoresFinal /\ AllListed
        /\ \A t \in Snapshots : Kept(t)
    BY DEF SnapshotInv
  <1>2. s \in Snapshots
    <2>1. start' \in [Processes -> Start]
      BY <1>1, SnapshotTypeStep DEF SnapshotInv, SnapshotTypeOK
    <2> QED BY <2>1 DEF Start
  <1>3. ASSUME Listed(p, s), start'[p] = start[p]
        PROVE  Listed(p, s)'
    <2>1. /\ task'[s].pc = "none" /\ shown'[s] = shown[s]
          /\ dir'[s].place = "final" => dir[s].place = "final"
          /\ Settled(s) => Settled(s)'
      BY <1>2, <1>3, DeadRemains, FinalRemains DEF Listed
    <2> HIDE DEF Settled
    <2> QED BY <1>3, <2>1 DEF Listed
  <1>4. CASE start'[p] = start[p]
    BY <1>1, <1>3, <1>4 DEF AllListed, Lists
  <1>5. CASE List(p)
    <2>1. shown[s] # NoPreview /\ task[s].pc = "none"
      BY <1>1, <1>5, ListMakes
    <2>2. dir[s].place = "final" =>
             \/ snapshot[s].status \in Recoverable
             \/ snapshot[s].status \in {"completed", "corrupted"}
      <3>1. snapshot[s].status \in Status
        BY <1>1, <1>2 DEF SnapshotTypeOK, Row
      <3>2. dir[s].place = "final" =>
               snapshot[s].status \notin {"none", "canceled"}
        BY <1>1, <1>2 DEF Kept, PlaceIs
      <3> QED BY <3>1, <3>2 DEF Status, Recoverable
    <2>3. UNCHANGED <<dir, task, shown, snapshot>>
      BY <1>5 DEF List
    <2> QED BY <1>1, <1>2, <1>5, <2>1, <2>2, <2>3, ListMakes
            DEF Listed, Settled
  <1>6. ASSUME NEW t \in Snapshots, Skip(p, t) PROVE Listed(p, s)'
    <2>1. /\ start[p].pc = "recover"
          /\ UNCHANGED <<dir, task, shown, refailed, snapshot>>
          /\ dir[t].place # "final" \/ snapshot[t].status = "completed"
      BY <1>6 DEF Skip
    <2>2. Listed(p, s)
      BY <1>1, <1>6, <2>1, SkipMakes DEF AllListed, Lists
    <2> QED BY <1>1, <1>6, <2>1, <2>2, SkipMakes DEF Listed, Settled
  <1>7. ASSUME NEW t \in Snapshots, Reconstruct(p, t) PROVE Listed(p, s)'
    <2>1. /\ start[p].pc = "recover"
          /\ UNCHANGED <<dir, task, shown, refailed, snapshot>>
      BY <1>7 DEF Reconstruct
    <2>2. Listed(p, s)
      BY <1>1, <1>7, <2>1, ReconstructMakes DEF AllListed, Lists
    <2> QED BY <1>1, <1>7, <2>1, <2>2, ReconstructMakes DEF Listed, Settled
  <1>8. CASE Store(p)
    <2>1. start[p].pc = "store" /\ UNCHANGED <<dir, task, shown, refailed>>
      BY <1>8 DEF Store
    <2>2. Listed(p, s)
      BY <1>1, <1>8, <2>1, StoreMakes DEF AllListed, Lists
    <2>3. PICK t \in start[p].current :
             /\ \A u \in Snapshots \ {t} : snapshot'[u] = snapshot[u]
             /\ snapshot'[t] = Restored(t, start[p].loaded)
      BY <1>1, <1>8, StoreMakes
    <2>4. /\ t \in Snapshots /\ start[p].current = {t}
          /\ start[p].loaded.status # "completed" /\ start[p].loaded \in Loaded
      BY <1>1, <2>1, <2>3 DEF StoresFinal, SnapshotTypeOK, Start
    <2>5. s = t => snapshot'[s].status = "completed"
      BY <1>1, <2>3, <2>4, IsRestored
    <2>6. s # t => snapshot'[s] = snapshot[s]
      BY <1>2, <2>3
    <2> QED BY <1>1, <1>8, <2>1, <2>2, <2>4, <2>5, <2>6, StoreMakes
            DEF Listed, Settled
  <1>9. CASE GiveUp(p)
    <2>1. /\ start[p].pc = "store"
          /\ UNCHANGED <<dir, task, shown, refailed, snapshot>>
      BY <1>9 DEF GiveUp
    <2>2. Listed(p, s)
      BY <1>1, <1>9, <2>1, GiveUpMakes DEF AllListed, Lists
    <2>3. PICK t \in start[p].current :
             \/ start'[p].pc = "recover" /\ snapshot[t].status = "completed"
             \/ /\ start'[p].pc = "spoil"
                /\ start'[p].current = start[p].current
                /\ start'[p].loaded.status = snapshot[t].status
      BY <1>1, <1>9, GiveUpMakes
    <2>4. t \in Snapshots /\ start[p].current = {t}
      BY <1>1, <2>1, <2>3 DEF StoresFinal
    <2> QED BY <1>1, <1>9, <2>1, <2>2, <2>3, <2>4, GiveUpMakes
            DEF Listed, Settled
  <1>10. CASE Spoil(p)
    <2>1. start[p].pc = "spoil" /\ UNCHANGED <<dir, task, shown, refailed>>
      BY <1>10 DEF Spoil
    <2>2. Listed(p, s)
      BY <1>1, <1>10, <2>1, SpoilMakes DEF AllListed, Lists
    <2>3. PICK t \in start[p].current :
             /\ \A u \in Snapshots \ {t} : snapshot'[u] = snapshot[u]
             /\ snapshot'[t].status =
                    IF start[p].loaded.status = "corrupted"
                    THEN snapshot[t].status ELSE "corrupted"
      BY <1>1, <1>10, SpoilMakes
    <2>4. t \in Snapshots /\ start[p].current = {t}
      BY <1>1, <2>1, <2>3 DEF StoresFinal
    <2>5. s # t => snapshot'[s] = snapshot[s]
      BY <1>2, <2>3
    <2> QED BY <1>1, <1>10, <2>1, <2>2, <2>3, <2>4, <2>5, SpoilMakes
            DEF Listed, Settled
  <1>11. CASE FindStale(p)
    <2>1. /\ start[p].pc = "recover" /\ start[p].todo = {}
          /\ UNCHANGED <<dir, task, shown, refailed, snapshot>>
      BY <1>11 DEF FindStale
    <2>2. Listed(p, s)
      BY <1>1, <1>11, <2>1, FindStaleMakes DEF AllListed, Lists
    <2> QED BY <2>1, <2>2 DEF Listed, Settled
  <1>12. ~ListFails(p)
    <2>1. ListFails(p) => start[p].pc = "list"
      BY DEF ListFails
    <2>2. start[p].pc = "list" => start[p].dead = {}
      BY <1>1 DEF AllListed, Lists
    <2> QED BY <1>1, <2>1, <2>2, ListFailsMakes
  <1>13. ~Launch(p) /\ ~FailStale(p) /\ ~AppCrash(p)
    BY <1>1, LaunchMakes, FailStaleStarts, AppCrashMakes
  <1> QED BY <1>4, <1>5, <1>6, <1>7, <1>8, <1>9, <1>10, <1>11, <1>12, <1>13,
             StartChanges DEF Recover

LEMMA AllListedStep ==
    ASSUME SnapshotInv, [SnapshotNext]_snapshotVars
    PROVE  AllListed'
  <1> SUFFICES ASSUME NEW p \in Processes, ~Lists(p)', start'[p].pc # "up"
               PROVE  start'[p].dead = {}
    BY ListedStep DEF AllListed, Lists
  <1>1. SnapshotTypeOK /\ AllListed
    BY DEF SnapshotInv
  <1>2. CASE start'[p] = start[p]
    BY <1>1, <1>2 DEF AllListed, Lists
  <1>3. CASE Launch(p)
    <2>1. start[p].pc = "down"
      BY <1>3 DEF Launch
    <2>2. start'[p] = [start[p] EXCEPT !.pc = "list"]
      BY <1>1, <1>3 DEF Launch, SnapshotTypeOK
    <2>3. start[p].dead = {}
      BY <1>1, <2>1 DEF AllListed, Lists
    <2> QED BY <1>1, <2>2, <2>3 DEF SnapshotTypeOK, Start
  <1>4. CASE AppCrash(p)
    BY <1>1, <1>4 DEF AppCrash, SnapshotTypeOK, StartAt
  <1>5. /\ ~List(p) /\ ~Store(p) /\ ~FailStale(p)
        /\ ~ListFails(p) /\ ~Spoil(p) /\ ~FindStale(p) /\ ~GiveUp(p)
        /\ \A s \in Snapshots : ~Skip(p, s) /\ ~Reconstruct(p, s)
    BY <1>1, ListMakes, StoreMakes, FailStaleStarts, GiveUpMakes,
       ReconstructMakes, SkipMakes, ListFailsMakes, SpoilMakes, FindStaleMakes
    DEF Lists
  <1> QED BY <1>2, <1>3, <1>4, <1>5, StartChanges DEF Recover

LEMMA ChecksRowsStep ==
    ASSUME SnapshotInv, [SnapshotNext]_snapshotVars
    PROVE  ChecksRows'
  <1>1. SnapshotTypeOK /\ ChecksRows /\ \A t \in Snapshots : Kept(t)
    BY DEF SnapshotInv
  <1>2. \A s \in check.current : s \in Snapshots
    BY <1>1 DEF SnapshotTypeOK, Check
  <1> DEFINE Good == \A s \in check'.current : shown'[s] # NoPreview
  <1>3. ASSUME check'.current = check.current PROVE Good
    BY <1>1, <1>2, <1>3, FinalRemains DEF ChecksRows
  <1>4. check'.current = {} => Good
    OBVIOUS
  <1>5. ASSUME NEW s \in Snapshots, Read(s) PROVE Good
    <2>1. shown[s] # NoPreview
      BY <1>1, <1>5 DEF Read, Kept, PlaceIs
    <2> QED BY <1>5, <2>1 DEF Read
  <1>6. Condemn => check'.current = {}
    BY DEF Condemn, NoCheck
  <1>7. Verify => check'.current = {} \/ check'.current = check.current
    BY <1>1, VerifyMakes DEF NoCheck, SnapshotTypeOK, Check
  <1>8. \A s \in Snapshots : Create(s) => UNCHANGED check
    BY <1>1, CreateLeaves
  <1>9. \A s \in Snapshots, p \in Processes :
           StartSnapshot(p, s) => UNCHANGED check
    BY DEF StartSnapshot
  <1>10. \A p \in Processes : Recover(p) \/ AppCrash(p) => UNCHANGED check
    BY <1>1, RecoverLeaves DEF AppCrash
  <1>11. \A s \in Snapshots : Cancel(s) \/ Damage(s) => UNCHANGED check
    BY DEF Cancel, Damage
  <1>12. \A i \in Images : Change(i) => UNCHANGED check
    BY DEF Change
  <1>13. UNCHANGED snapshotVars => UNCHANGED check
    BY DEF snapshotVars
  <1>14. Good
    BY <1>3, <1>4, <1>5, <1>6, <1>7, <1>8, <1>9, <1>10, <1>11, <1>12, <1>13
    DEF SnapshotNext
  <1>15. ASSUME NEW p \in Processes, start'[p].pc = "stale",
                NEW s \in start'[p].todo
         PROVE  shown'[s] # NoPreview
    <2>1. CASE start'[p] = start[p]
      <3>1. s \in Snapshots /\ shown[s] # NoPreview
        BY <1>1, <1>15, <2>1 DEF ChecksRows, SnapshotTypeOK, Start
      <3> QED BY <3>1, FinalRemains
    <2>2. CASE FindStale(p)
      <3>1. s \in Snapshots /\ snapshot[s].status = "creating"
        BY <1>1, <1>15, <2>2, FindStaleMakes
      <3>2. shown[s] # NoPreview
        BY <1>1, <3>1 DEF Kept, PlaceIs
      <3> QED BY <2>2, <3>2 DEF FindStale
    <2>3. /\ ~Launch(p) /\ ~List(p) /\ ~Store(p) /\ ~FailStale(p)
          /\ ~ListFails(p) /\ ~Spoil(p) /\ ~GiveUp(p) /\ ~AppCrash(p)
          /\ \A t \in Snapshots : ~Skip(p, t) /\ ~Reconstruct(p, t)
      BY <1>1, <1>15, LaunchMakes, ListMakes, StoreMakes, FailStaleStarts,
         GiveUpMakes, ReconstructMakes, SkipMakes, ListFailsMakes, SpoilMakes,
         AppCrashMakes
    <2> QED BY <2>1, <2>2, <2>3, StartChanges DEF Recover
  <1> QED BY <1>14, <1>15 DEF ChecksRows

LEMMA SnapshotInvStep ==
    ASSUME SnapshotInv, [SnapshotNext]_snapshotVars
    PROVE  SnapshotInv'
  <1>1. SnapshotTypeOK' /\ Captions'
    BY SnapshotTypeStep DEF SnapshotInv
  <1> QED BY <1>1, EveryStepKeeps, StoresFinalStep, AllListedStep,
             ChecksRowsStep
          DEF SnapshotInv

\* The inductive invariant of the snapshots.
THEOREM SnapshotsAreKept == SnapshotSpec => []SnapshotInv
  <1>1. SnapshotInit => SnapshotInv
    BY SnapshotInvInit
  <1>2. SnapshotInv /\ [SnapshotNext]_snapshotVars => SnapshotInv'
    BY SnapshotInvStep
  <1> QED BY <1>1, <1>2, PTL DEF SnapshotSpec

\* Rows, directories, tasks and previews are what their readers take them for.
THEOREM SnapshotTypeCorrect == SnapshotSpec => []SnapshotTypeOK
  <1>1. SnapshotInv => SnapshotTypeOK
    BY DEF SnapshotInv
  <1> QED BY <1>1, SnapshotsAreKept, PTL

\* A COMPLETED snapshot holds what the user confirmed, whoever completed it and
\* whatever became of the images since.
THEOREM CompletedAsConfirmed == SnapshotSpec => []CompletedIsPreview
  <1>1. SnapshotInv => CompletedIsPreview
    BY DEF SnapshotInv, Kept, FilesAre, RowIs, CompletedIsPreview
  <1> QED BY <1>1, SnapshotsAreKept, PTL

\* A directory that was renamed has rows that a start takes up, or final ones.
THEOREM RenamedIsKnown == SnapshotSpec => []FinalIsKnown
  <1>1. SnapshotInv => FinalIsKnown
    <2> SUFFICES ASSUME SnapshotInv, NEW s \in Snapshots, dir[s].place = "final"
                 PROVE  snapshot[s].status \in
                            Open \cup {"failed", "completed", "corrupted"}
      BY DEF FinalIsKnown
    <2>1. snapshot[s].status \in Status
      BY DEF SnapshotInv, SnapshotTypeOK, Row
    <2>2. snapshot[s].status \notin {"none", "canceled"}
      BY DEF SnapshotInv, Kept, PlaceIs
    <2> QED BY <2>1, <2>2 DEF Status
  <1> QED BY <1>1, SnapshotsAreKept, PTL

\* A start that ends leaves no renamed directory that nobody worked at without
\* rows that are COMPLETED or CORRUPTED, if it could list the records and no
\* other start failed what it had healed, for any number of applications,
\* snapshots, crashes and failures.
THEOREM StartsHeal == SnapshotSpec => StartHeals
  <1> DEFINE Heals == \A p \in Processes :
                start[p].pc = "stale" /\ start'[p].pc = "up" =>
                    \A s \in start[p].dead \ refailed' : dir[s].place = "final" =>
                        snapshot'[s].status \in {"completed", "corrupted"}
  <1>1. SnapshotInv /\ [SnapshotNext]_snapshotVars => [Heals]_snapshotVars
    <2> SUFFICES ASSUME SnapshotInv, [SnapshotNext]_snapshotVars,
                        NEW p \in Processes,
                        start[p].pc = "stale", start'[p].pc = "up",
                        NEW s \in start[p].dead \ refailed',
                        dir[s].place = "final"
                 PROVE  snapshot'[s].status \in {"completed", "corrupted"}
      OBVIOUS
    <2>1. SnapshotTypeOK /\ AllListed
      BY DEF SnapshotInv
    <2>2. Listed(p, s) /\ s \in Snapshots
      BY <2>1 DEF AllListed, Lists, SnapshotTypeOK, Start
    <2>3. Settled(s)
      BY <2>2 DEF Listed
    <2>4. Settled(s)'
      BY <2>2, <2>3, DeadRemains DEF Listed
    <2> QED BY <2>4 DEF Settled
  <1> HIDE DEF Heals
  <1>2. StartHeals <=> [][Heals]_snapshotVars
    BY DEF StartHeals, Heals
  <1> QED BY <1>1, <1>2, SnapshotsAreKept, PTL DEF SnapshotSpec
=============================================================================
