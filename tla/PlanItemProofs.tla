--------------------------- MODULE PlanItemProofs ---------------------------
(***************************************************************************)
(* Theorems about ItemDownload, for any numbers of workers, sweepers,      *)
(* chunks, attempts and faults, and about AcquisitionPlan, for any numbers *)
(* of callers, posts, searches, versions and plans.  The two components    *)
(* share no state: the first half is about the one, the second about the   *)
(* other.                                                                  *)
(***************************************************************************)
EXTENDS ItemDownload, AcquisitionPlan, FiniteSetTheorems, TLAPS

(* ItemDownload: what the steps make of the threads and of the row *)

LEMMA ItemInitTyped == Init => TypeOK
  BY BoundsAssumption
  DEF Init, TypeOK, Item, Status, Part, Absent, Worker, IdleWorker, Label

\* What a thread becomes, and that the others stay as they are.
LEMMA BecomesOne ==
    ASSUME TypeOK, NEW w \in Workers, NEW r \in Worker, Becomes(w, r)
    PROVE  /\ worker' \in [Workers -> Worker]
           /\ worker'[w] = r
           /\ \A u \in Workers \ {w} : worker'[u] = worker[u]
  BY DEF TypeOK, Becomes

LEMMA GoesOn ==
    ASSUME TypeOK, NEW w \in Workers, NEW l \in Label, Go(w, l)
    PROVE  /\ worker' \in [Workers -> Worker]
           /\ worker'[w].pc = l
           /\ worker'[w].claim = worker[w].claim
           /\ worker'[w].file = worker[w].file
           /\ worker'[w].append = worker[w].append
           /\ worker'[w].next = worker[w].next
           /\ worker'[w].at = worker[w].at
           /\ worker'[w].copied = worker[w].copied
           /\ \A u \in Workers \ {w} : worker'[u] = worker[u]
  <1> DEFINE r == [worker[w] EXCEPT !.pc = l]
  <1>1. worker[w] \in Worker
    BY DEF TypeOK
  <1>2. /\ r \in Worker /\ r.pc = l
        /\ r.claim = worker[w].claim /\ r.file = worker[w].file
        /\ r.append = worker[w].append /\ r.next = worker[w].next
        /\ r.at = worker[w].at /\ r.copied = worker[w].copied
    BY <1>1 DEF Worker
  <1>3. Becomes(w, r)
    BY DEF Go
  <1> HIDE DEF r
  <1> QED BY <1>2, <1>3, BecomesOne

LEMMA ClosesFile ==
    ASSUME TypeOK, NEW w \in Workers, NEW l \in Label, Becomes(w, Closed(w, l))
    PROVE  /\ worker' \in [Workers -> Worker]
           /\ worker'[w].pc = l
           /\ worker'[w].claim = worker[w].claim
           /\ worker'[w].file = "none" /\ worker'[w].next = 0
           /\ \A u \in Workers \ {w} : worker'[u] = worker[u]
  <1>1. worker[w] \in Worker
    BY DEF TypeOK
  <1>2. /\ Closed(w, l) \in Worker /\ Closed(w, l).pc = l
        /\ Closed(w, l).claim = worker[w].claim
        /\ Closed(w, l).file = "none" /\ Closed(w, l).next = 0
    BY <1>1 DEF Closed, IdleWorker, Worker
  <1> QED BY <1>2, BecomesOne

LEMMA Leaves ==
    ASSUME TypeOK, NEW w \in Workers, Leave(w)
    PROVE  /\ worker' \in [Workers -> Worker]
           /\ worker'[w].pc = "idle" /\ worker'[w].claim = 0
           /\ \A u \in Workers \ {w} : worker'[u] = worker[u]
  <1>1. IdleWorker \in Worker /\ IdleWorker.pc = "idle" /\ IdleWorker.claim = 0
    BY DEF IdleWorker, Worker
  <1> QED BY <1>1, BecomesOne DEF Leave


LEMMA PrepareKnows ==
    ASSUME TypeOK, NEW w \in Workers, Prepare(w)
    PROVE  /\ worker' \in [Workers -> Worker]
           /\ worker'[w].pc = "resume"
           /\ worker'[w].claim = worker[w].claim
           /\ worker'[w].file = worker[w].file
           /\ \A u \in Workers \ {w} : worker'[u] = worker[u]
  <1> DEFINE r == [worker[w] EXCEPT !.pc = "resume", !.at = item.received,
                                 !.append = item.ranged]
  <1>1. worker[w] \in Worker
    BY DEF TypeOK
  <1>2. /\ r \in Worker
        /\ r.pc = "resume"
        /\ r.claim = worker[w].claim
        /\ r.file = worker[w].file
    BY <1>1, BoundsAssumption DEF TypeOK, Item, Part, Worker, Label
  <1>3. Becomes(w, r)
    BY DEF Prepare
  <1> HIDE DEF r
  <1> QED BY <1>2, <1>3, BecomesOne

LEMMA MetaKnows ==
    ASSUME TypeOK, NEW w \in Workers, UpdateResponseMetadata(w)
    PROVE  /\ worker' \in [Workers -> Worker]
           /\ worker'[w].pc = "open"
           /\ worker'[w].claim = worker[w].claim
           /\ worker'[w].file = worker[w].file
           /\ worker'[w].append = worker[w].append
           /\ worker'[w].next = worker[w].next
           /\ \A u \in Workers \ {w} : worker'[u] = worker[u]
  <1> DEFINE r == [worker[w] EXCEPT !.pc = "open",
                           !.at = IF worker[w].append /\ part.there
                                  THEN part.size ELSE 0]
  <1>1. worker[w] \in Worker
    BY DEF TypeOK
  <1>2. /\ r \in Worker
        /\ r.pc = "open"
        /\ r.claim = worker[w].claim
        /\ r.file = worker[w].file
        /\ r.append = worker[w].append
        /\ r.next = worker[w].next
    BY <1>1, BoundsAssumption DEF TypeOK, Item, Part, Worker, Label
  <1>3. Becomes(w, r)
    BY DEF UpdateResponseMetadata
  <1> HIDE DEF r
  <1> QED BY <1>2, <1>3, BecomesOne

LEMMA OpenKnows ==
    ASSUME TypeOK, NEW w \in Workers, OpenPart(w)
    PROVE  /\ worker' \in [Workers -> Worker]
           /\ worker'[w].pc = "chunk"
           /\ worker'[w].file = "open"
           /\ worker'[w].claim = worker[w].claim
           /\ worker'[w].append = worker[w].append
           /\ worker'[w].next = worker[w].next
           /\ \A u \in Workers \ {w} : worker'[u] = worker[u]
  <1> DEFINE r == [worker[w] EXCEPT !.pc = "chunk", !.file = "open"]
  <1>1. worker[w] \in Worker
    BY DEF TypeOK
  <1>2. /\ r \in Worker
        /\ r.pc = "chunk"
        /\ r.file = "open"
        /\ r.claim = worker[w].claim
        /\ r.append = worker[w].append
        /\ r.next = worker[w].next
    BY <1>1, BoundsAssumption DEF TypeOK, Item, Part, Worker, Label
  <1>3. Becomes(w, r)
    BY DEF OpenPart
  <1> HIDE DEF r
  <1> QED BY <1>2, <1>3, BecomesOne

LEMMA WriteKnows ==
    ASSUME TypeOK, NEW w \in Workers, WriteChunk(w)
    PROVE  /\ worker' \in [Workers -> Worker]
           /\ worker'[w].pc = "record"
           /\ worker'[w].claim = worker[w].claim
           /\ worker'[w].file = worker[w].file
           /\ worker'[w].next = worker[w].next + 1
           /\ \A u \in Workers \ {w} : worker'[u] = worker[u]
  <1> DEFINE n == worker[w].next + 1
             a == worker[w].at + 1
             r == [worker[w] EXCEPT !.pc = "record", !.next = n, !.at = a]
  <1>1. worker[w] \in Worker /\ n \in Nat /\ a \in Nat
    BY DEF TypeOK, Worker
  <1>2. Becomes(w, r)
    BY DEF WriteChunk
  <1> HIDE DEF n, a
  <1>3. /\ r \in Worker /\ r.pc = "record" /\ r.claim = worker[w].claim
        /\ r.file = worker[w].file /\ r.next = n
    BY <1>1 DEF Worker, Label
  <1> HIDE DEF r
  <1>4. /\ worker' \in [Workers -> Worker] /\ worker'[w] = r
        /\ \A u \in Workers \ {w} : worker'[u] = worker[u]
    BY <1>2, <1>3, BecomesOne
  <1> QED BY <1>3, <1>4 DEF n

LEMMA ResumeKnows ==
    ASSUME TypeOK, NEW w \in Workers, ResumeStart(w)
    PROVE  /\ worker' \in [Workers -> Worker]
           /\ worker'[w].pc = "request"
           /\ worker'[w].claim = worker[w].claim
           /\ part' \in Part
           /\ part' = part \/ part' = Empty
           /\ IF worker'[w].append
              THEN part'.there /\ part'.size = worker'[w].next
              ELSE worker'[w].next = 0
           /\ \A u \in Workers \ {w} : worker'[u] = worker[u]
  <1> DEFINE known == worker[w].at = part.size
             resume == /\ part.there /\ part.size \in 1..Chunks-1
                       /\ known /\ worker[w].append
             unknown == part.there /\ part.size > 0 /\ ~known
             r == [worker[w] EXCEPT !.pc = "request", !.append = resume,
                                    !.next = IF resume THEN part.size ELSE 0,
                                    !.at = 0]
  <1>1. worker[w] \in Worker /\ part \in Part /\ resume \in BOOLEAN
    BY DEF TypeOK
  <1>2. Becomes(w, r) /\ part' = IF unknown THEN Empty ELSE part
    BY DEF ResumeStart
  <1>3. part' \in Part /\ (part' = part \/ part' = Empty)
    BY <1>1, <1>2 DEF Empty, Part
  <1>4. resume => part' = part /\ part.there
    BY <1>2
  <1> HIDE DEF resume, unknown, known
  <1>5. /\ r \in Worker /\ r.pc = "request" /\ r.claim = worker[w].claim
        /\ r.append = resume
        /\ r.next = IF resume THEN part.size ELSE 0
    BY <1>1 DEF Worker, Label, Part
  <1> HIDE DEF r
  <1>6. /\ worker' \in [Workers -> Worker] /\ worker'[w] = r
        /\ \A u \in Workers \ {w} : worker'[u] = worker[u]
    BY <1>2, <1>5, BecomesOne
  <1> QED BY <1>3, <1>4, <1>5, <1>6

LEMMA RespondKnows ==
    ASSUME TypeOK, NEW w \in Workers, Respond(w)
    PROVE  /\ worker' \in [Workers -> Worker]
           /\ worker'[w].pc \in {"meta", "truncate", "restart"}
           /\ worker'[w].claim = worker[w].claim
           /\ worker'[w].pc = "meta" => /\ worker'[w].append = worker[w].append
                                        /\ worker'[w].next = worker[w].next
           /\ worker'[w].pc = "truncate" => ~worker'[w].append /\ worker'[w].next = 0
           /\ \A u \in Workers \ {w} : worker'[u] = worker[u]
  <1>1. worker[w] \in Worker
    BY DEF TypeOK
  <1>2. CASE ~worker[w].append /\ Go(w, "meta")
    BY <1>2, GoesOn DEF Label
  <1>3. ASSUME NEW first \in 0..Chunks-1, ValidRange(w, first),
               Becomes(w, [worker[w] EXCEPT !.pc = "meta", !.next = first])
        PROVE  /\ worker' \in [Workers -> Worker]
               /\ worker'[w].pc = "meta"
               /\ worker'[w].claim = worker[w].claim
               /\ worker'[w].append = worker[w].append
               /\ worker'[w].next = worker[w].next
               /\ \A u \in Workers \ {w} : worker'[u] = worker[u]
    <2> DEFINE r == [worker[w] EXCEPT !.pc = "meta", !.next = first]
    <2>1. /\ r \in Worker /\ r.pc = "meta" /\ r.claim = worker[w].claim
          /\ r.append = worker[w].append /\ r.next = worker[w].next
      BY <1>1, <1>3, BoundsAssumption DEF Worker, Label, ValidRange
    <2> HIDE DEF r
    <2>2. Becomes(w, r)
      BY <1>3 DEF r
    <2> QED BY <2>1, <2>2, BecomesOne
  <1>4. ASSUME Becomes(w, [worker[w] EXCEPT !.pc = "truncate", !.append = FALSE,
                                            !.next = 0])
        PROVE  /\ worker' \in [Workers -> Worker]
               /\ worker'[w].pc = "truncate"
               /\ worker'[w].claim = worker[w].claim
               /\ ~worker'[w].append /\ worker'[w].next = 0
               /\ \A u \in Workers \ {w} : worker'[u] = worker[u]
    <2> DEFINE r == [worker[w] EXCEPT !.pc = "truncate", !.append = FALSE,
                                      !.next = 0]
    <2>1. /\ r \in Worker /\ r.pc = "truncate" /\ r.claim = worker[w].claim
          /\ ~r.append /\ r.next = 0
      BY <1>1 DEF Worker, Label
    <2> HIDE DEF r
    <2>2. Becomes(w, r)
      BY <1>4 DEF r
    <2> QED BY <2>1, <2>2, BecomesOne
  <1>5. CASE worker[w].append /\ Go(w, "restart")
    BY <1>5, GoesOn DEF Label
  <1> QED BY <1>2, <1>3, <1>4, <1>5 DEF Respond

\* A file that is long enough and the image's is the image.
LEMMA CopyKnows ==
    ASSUME TypeOK, NEW w \in Workers, CopyPart(w)
    PROVE  /\ worker' \in [Workers -> Worker]
           /\ worker'[w].pc \in {"complete", "commit"}
           /\ worker'[w].claim = worker[w].claim
           /\ worker'[w].pc = "commit" =>
                 /\ part.size >= Chunks
                 /\ worker'[w].copied <=> part.good /\ part.size = Chunks
           /\ \A u \in Workers \ {w} : worker'[u] = worker[u]
  <1>1. worker[w] \in Worker /\ part \in Part
    BY DEF TypeOK
  <1>2. CASE Go(w, "complete")
    BY <1>2, GoesOn DEF Label
  <1>3. ASSUME part.size >= Chunks,
               Becomes(w, [worker[w] EXCEPT !.pc = "commit",
                               !.copied = part.good /\ part.size = Chunks])
        PROVE  /\ worker' \in [Workers -> Worker]
               /\ worker'[w].pc = "commit"
               /\ worker'[w].claim = worker[w].claim
               /\ worker'[w].copied <=> part.good /\ part.size = Chunks
               /\ \A u \in Workers \ {w} : worker'[u] = worker[u]
    <2> DEFINE b == part.good /\ part.size = Chunks
               r == [worker[w] EXCEPT !.pc = "commit", !.copied = b]
    <2>1. b \in BOOLEAN
      OBVIOUS
    <2>2. Becomes(w, r)
      BY <1>3
    <2> HIDE DEF b
    <2>3. /\ r \in Worker /\ r.pc = "commit" /\ r.claim = worker[w].claim
          /\ r.copied = b
      BY <1>1, <2>1 DEF Worker, Label
    <2> HIDE DEF r
    <2>4. /\ worker' \in [Workers -> Worker] /\ worker'[w] = r
          /\ \A u \in Workers \ {w} : worker'[u] = worker[u]
      BY <2>2, <2>3, BecomesOne
    <2> QED BY <2>3, <2>4 DEF b
  <1> QED BY <1>2, <1>3 DEF CopyPart

\* A claim is new, and its item is not pending any more.
LEMMA ClaimKnows ==
    ASSUME TypeOK, NEW w \in Workers, ClaimItem(w)
    PROVE  /\ worker' \in [Workers -> Worker]
           /\ worker'[w].pc = IF Ended THEN "finish" ELSE "start"
           /\ worker'[w].claim = gen + 1
           /\ \A u \in Workers \ {w} : worker'[u] = worker[u]
           /\ item' \in Item
           /\ item'.status = IF item.status = "pending" THEN "downloading"
                             ELSE item.status
           /\ item'.retryable = item.retryable
           /\ item'.received = item.received
           /\ item'.warning = item.warning /\ item'.claim = item.claim
  <1> DEFINE l == IF Ended THEN "finish" ELSE "start"
             v == item.status = "validation_pending"
             g == gen + 1
             r == [IdleWorker EXCEPT !.pc = l, !.claim = g, !.validate = v]
  <1>1. l \in Label /\ v \in BOOLEAN /\ g \in Nat /\ item \in Item
    BY DEF Label, TypeOK
  <1>2. Becomes(w, r)
    BY DEF ClaimItem
  <1>3. /\ item' \in Item
        /\ item'.status = IF item.status = "pending" THEN "downloading"
                          ELSE item.status
        /\ item'.retryable = item.retryable
        /\ item'.received = item.received
        /\ item'.warning = item.warning /\ item'.claim = item.claim
    BY <1>1 DEF ClaimItem, Item, Status
  <1> HIDE DEF l, v, g
  <1>4. r \in Worker /\ r.pc = l /\ r.claim = g
    BY <1>1 DEF IdleWorker, Worker
  <1> HIDE DEF r
  <1>5. /\ worker' \in [Workers -> Worker] /\ worker'[w] = r
        /\ \A u \in Workers \ {w} : worker'[u] = worker[u]
    BY <1>2, <1>4, BecomesOne
  <1> QED BY <1>3, <1>4, <1>5 DEF l, g

\* Who has the file open finds it gone.
LEMMA UnlinkKnows ==
    ASSUME TypeOK, NEW c \in Cleaners, UnlinkPart(c)
    PROVE  /\ worker' \in [Workers -> Worker]
           /\ \A w \in Workers :
                 /\ worker'[w].pc = worker[w].pc
                 /\ worker'[w].claim = worker[w].claim
                 /\ worker'[w].append = worker[w].append
                 /\ worker'[w].next = worker[w].next
                 /\ worker'[w].copied = worker[w].copied
                 /\ worker'[w].file # "open"
  <1> SUFFICES ASSUME NEW w \in Workers
               PROVE  /\ worker'[w] \in Worker
                      /\ worker'[w].pc = worker[w].pc
                      /\ worker'[w].claim = worker[w].claim
                      /\ worker'[w].append = worker[w].append
                      /\ worker'[w].next = worker[w].next
                      /\ worker'[w].copied = worker[w].copied
                      /\ worker'[w].file # "open"
    BY DEF UnlinkPart
  <1> DEFINE f == IF worker[w].file = "open" THEN "lost" ELSE worker[w].file
  <1>1. worker'[w] = [worker[w] EXCEPT !.file = f]
    BY DEF UnlinkPart
  <1>2. worker[w] \in Worker /\ f \in {"none", "lost"}
    BY DEF TypeOK, Worker
  <1> HIDE DEF f
  <1> QED BY <1>1, <1>2 DEF Worker

\* What recover_stale_jobs makes of an item: one that has ended keeps its end,
\* and one that waits again has no cleanup or nothing in its file.
LEMMA RecoveredItem ==
    ASSUME TypeOK
    PROVE  /\ Recovered \in Item
           /\ Ended => /\ Recovered.status = item.status
                       /\ Recovered.retryable = item.retryable
                       /\ Recovered.warning = item.warning
                       /\ ~item.warning => Recovered.claim = item.claim
           /\ ~Ended => Recovered.status \in {"imported", "pending",
                                              "validation_pending"}
           /\ ~Ended /\ ~CleanupPending /\ Recovered.status = "pending" =>
                 \/ Recovered.received = 0
                 \/ ~Recovered.warning /\ Recovered.claim = NoOne
  <1> DEFINE target == IF item.status = "staged" /\ PartMatches
                       THEN "validation_pending" ELSE "pending"
             next == [item EXCEPT !.status = target, !.retryable = FALSE]
  <1>1. item \in Item /\ target \in {"pending", "validation_pending"}
    BY DEF TypeOK
  <1>2. Recovered =
            CASE ImportWasCommitted -> ImportRecovered
              [] Ended -> [item EXCEPT !.claim = IF item.warning THEN NoOne ELSE @]
              [] item.status = "failed" /\ item.retryable ->
                     [next EXCEPT !.warning = FALSE, !.claim = NoOne]
              [] OTHER -> IF PartMatches THEN next ELSE Reset(next)
    BY DEF Recovered
  <1> HIDE DEF target
  <1>3. /\ ImportWasCommitted => ~Ended /\ item.status # "failed"
        /\ item.status = "failed" /\ item.retryable
              <=> item.status = "failed" /\ ~Ended
    BY DEF ImportWasCommitted, Ended
  <1>4. CASE ImportWasCommitted
    <2>1. Recovered = ImportRecovered
      BY <1>2, <1>3, <1>4
    <2>2. ImportRecovered \in Item /\ ImportRecovered.status = "imported"
      BY <1>1 DEF ImportRecovered, Reset, Item, Status
    <2> QED BY <1>3, <1>4, <2>1, <2>2
  <1>5. CASE Ended
    <2> DEFINE c == IF item.warning THEN NoOne ELSE item.claim
    <2>1. Recovered = [item EXCEPT !.claim = c]
      BY <1>2, <1>3, <1>5
    <2>2. c \in Cleaners \cup {NoOne} /\ (~item.warning => c = item.claim)
      BY <1>1 DEF Item
    <2> HIDE DEF c
    <2> QED BY <1>1, <1>5, <2>1, <2>2 DEF Item
  <1>6. CASE ~ImportWasCommitted /\ ~Ended /\ item.status = "failed"
    <2>1. Recovered = [next EXCEPT !.warning = FALSE, !.claim = NoOne]
      BY <1>2, <1>3, <1>6
    <2>2. /\ Recovered \in Item /\ Recovered.status = target
          /\ ~Recovered.warning /\ Recovered.claim = NoOne
      BY <1>1, <2>1 DEF Item, Status
    <2> QED BY <1>1, <1>6, <2>2
  <1>7. CASE ~ImportWasCommitted /\ ~Ended /\ item.status # "failed"
    <2>1. Recovered = IF PartMatches THEN next ELSE Reset(next)
      BY <1>2, <1>3, <1>7
    <2>2. /\ next \in Item /\ next.status = target
          /\ next.warning = item.warning /\ next.claim = item.claim
      BY <1>1 DEF Item, Status
    <2> HIDE DEF next
    <2>3. /\ Reset(next) \in Item /\ Reset(next).status = target
          /\ Reset(next).received = 0
      BY <2>2 DEF Reset, Item
    <2>4. CASE PartMatches
      BY <1>1, <1>7, <2>1, <2>2, <2>4 DEF CleanupPending, Item
    <2>5. CASE ~PartMatches
      BY <1>1, <1>7, <2>1, <2>3, <2>5
    <2> QED BY <2>4, <2>5
  <1> QED BY <1>4, <1>5, <1>6, <1>7

LEMMA TypeInductive == TypeOK /\ [Next]_vars => TypeOK'
  <1> SUFFICES ASSUME TypeOK, [Next]_vars PROVE TypeOK'
    OBVIOUS
  <1> USE BoundsAssumption
  <1>1. ASSUME NEW w \in Workers, ClaimItem(w) PROVE TypeOK'
    BY <1>1, ClaimKnows DEF ClaimItem, TypeOK
  <1>2. ASSUME NEW w \in Workers, Download(w) PROVE TypeOK'
    <2>1. CASE StartAttempt(w)
      BY <2>1, GoesOn DEF StartAttempt, TypeOK, Item, row, Label
    <2>2. CASE LinkOrValidate(w)
      BY <2>2, GoesOn DEF LinkOrValidate, TypeOK, Item, Status, row, Label
    <2>3. CASE Prepare(w)
      BY <2>3, PrepareKnows DEF Prepare, TypeOK, Item, Status, row
    <2>4. CASE ResumeStart(w)
      BY <2>4, ResumeKnows DEF ResumeStart, TypeOK, row
    <2>5. CASE Respond(w)
      BY <2>5, RespondKnows DEF Respond, TypeOK, row
    <2>6. CASE TruncatePart(w)
      BY <2>6, GoesOn DEF TruncatePart, TypeOK, Part, Empty, row, Label
    <2>7. CASE UpdateResponseMetadata(w)
      <3> DEFINE n == IF worker[w].append /\ part.there THEN part.size ELSE 0
      <3>1. n \in Nat /\ item \in Item
        BY DEF TypeOK, Part
      <3>2. PICK b \in BOOLEAN : item' = [item EXCEPT !.received = n, !.ranged = b]
        BY <2>7 DEF UpdateResponseMetadata
      <3> HIDE DEF n
      <3>3. item' \in Item
        BY <3>1, <3>2 DEF Item
      <3> QED BY <2>7, <3>3, MetaKnows DEF UpdateResponseMetadata, TypeOK, row
    <2>8. CASE OpenPart(w)
      BY <2>8, OpenKnows DEF OpenPart, TypeOK, Part, Empty, row
    <2>9. CASE NextChunk(w)
      BY <2>9, GoesOn DEF NextChunk, TypeOK, row, Label
    <2>10. CASE WriteChunk(w)
      <3>1. Written(w) \in Part
        <4> DEFINE n == worker[w].next
        <4>1. part \in Part /\ worker[w] \in Worker /\ n \in Nat
          BY DEF TypeOK, Worker
        <4>2. /\ part.size + 1 \in Nat
              /\ (part.good /\ part.size = n) \in BOOLEAN
              /\ (IF part.size > n THEN part.size ELSE n + 1) \in Nat
              /\ (part.good /\ part.size >= n) \in BOOLEAN
          BY <4>1 DEF Part
        <4> QED BY <4>1, <4>2 DEF Written, Part
      <3> QED BY <2>10, <3>1, WriteKnows DEF WriteChunk, TypeOK, row
    <2>11. CASE UpdateReceived(w)
      BY <2>11, GoesOn DEF UpdateReceived, TypeOK, Item, row, Label, Worker
    <2>12. CASE EndOfStream(w)
      BY <2>12, ClosesFile DEF EndOfStream, TypeOK, Item, Status, row, Label
    <2> QED BY <1>2, <2>1, <2>2, <2>3, <2>4, <2>5, <2>6, <2>7, <2>8, <2>9,
            <2>10, <2>11, <2>12 DEF Download
  <1>3. ASSUME NEW w \in Workers, Import(w) PROVE TypeOK'
    <2>1. CASE Inspect(w)
      BY <2>1, GoesOn DEF Inspect, TypeOK, row, Label
    <2>2. CASE SetImporting(w)
      BY <2>2, GoesOn DEF SetImporting, TypeOK, Item, Status, row, Label
    <2>3. CASE CopyPart(w)
      BY <2>3, CopyKnows DEF CopyPart, TypeOK, row
    <2>4. CASE CommitImport(w)
      BY <2>4, GoesOn DEF CommitImport, TypeOK, row, Label
    <2>5. CASE SetItemComplete(w)
      <3>1. Completed \in Item
        BY DEF Completed, Item, Status, TypeOK
      <3> QED BY <2>5, <3>1, ClosesFile
              DEF SetItemComplete, TypeOK, row, Label, CleanLabel, Cleaners
    <2> QED BY <1>3, <2>1, <2>2, <2>3, <2>4, <2>5 DEF Import
  <1>4. ASSUME NEW w \in Workers, Ends(w) PROVE TypeOK'
    <2>1. CASE RecordAttemptFailure(w)
      <3>1. item' \in Item
        BY <2>1 DEF RecordAttemptFailure, Item, Status, TypeOK
      <3> QED BY <2>1, <3>1, ClosesFile
      DEF RecordAttemptFailure, TypeOK, row, Label
    <2>2. CASE SetItemFailure(w)
      <3>1. item' \in Item
        BY <2>2 DEF SetItemFailure, Item, Status, TypeOK
      <3> QED BY <2>2, <3>1, ClosesFile
              DEF SetItemFailure, TypeOK, row, Label, CleanLabel, Cleaners
    <2>3. CASE CancelItem(w)
      <3>1. item' \in Item
        BY <2>3 DEF CancelItem, Item, Status, TypeOK
      <3> QED BY <2>3, <3>1, ClosesFile DEF CancelItem, TypeOK, row, Label
    <2>4. CASE FinishJob(w)
      BY <2>4, Leaves DEF FinishJob, TypeOK
    <2>5. CASE ClaimLost(w)
      BY <2>5, Leaves DEF ClaimLost, TypeOK, row
    <2> QED BY <1>4, <2>1, <2>2, <2>3, <2>4, <2>5 DEF Ends
  <1>5. ASSUME NEW c \in Cleaners, Clean(c) PROVE TypeOK'
    <2>1. CASE SelectCandidate(c)
      BY <2>1 DEF SelectCandidate, Moves, TypeOK, row, CleanLabel
    <2>2. CASE ClaimCleanup(c)
      BY <2>2 DEF ClaimCleanup, Moves, TypeOK, row, CleanLabel, Item
    <2>3. CASE RecheckCleanup(c)
      BY <2>3 DEF RecheckCleanup, Moves, TypeOK, row, CleanLabel
    <2>4. CASE UnlinkPart(c)
      BY <2>4, UnlinkKnows
      DEF UnlinkPart, Moves, TypeOK, row, CleanLabel, Absent, Part
    <2>5. CASE RecordCleanup(c)
      BY <2>5 DEF RecordCleanup, Moves, TypeOK, row, CleanLabel, Item
    <2>6. CASE CleanupConflict(c)
      BY <2>6 DEF CleanupConflict, Moves, TypeOK, row
    <2> QED BY <1>5, <2>1, <2>2, <2>3, <2>4, <2>5, <2>6 DEF Clean
  <1>6. ASSUME NEW c \in Cleaners, CleanFails(c) PROVE TypeOK'
    BY <1>6
    DEF CleanFails, UnlinkFails, CleanupError, Fault, Moves, TypeOK, row,
        CleanLabel
  <1>7. CASE TakeOver
    BY <1>7, RecoveredItem DEF TakeOver, TypeOK
  <1>8. CASE ResumeJob
    BY <1>8 DEF ResumeJob, TypeOK, Item, Status
  <1>9. CASE Crash
    BY <1>9 DEF Crash, Fault, TypeOK, row, Worker, IdleWorker
  <1>10. CASE UNCHANGED vars
    BY <1>10 DEF vars, TypeOK
  <1> QED BY <1>1, <1>2, <1>3, <1>4, <1>5, <1>6, <1>7, <1>8, <1>9, <1>10
  DEF Next

-----------------------------------------------------------------------------
(***************************************************************************)
(* The row of the item.  A worker that holds the job has a claim of its    *)
(* own; its item ends when the worker goes to clean up or to finish; no    *)
(* cleanup waits for an item that is not ended while the job runs, and     *)
(* none at all for a canceled one; an item that waits with a cleanup holds *)
(* nothing; and who is about to unlink has an item that has ended for      *)
(* good, or that waits and that nobody claims while the cleanup is his.    *)
(***************************************************************************)
OwnerIsLast == owner = IF phase = "running" THEN gen ELSE 0

ClaimsApart ==
    /\ \A w \in Workers : worker[w].claim <= gen
    /\ \A u, v \in Workers :
           worker[u].claim = worker[v].claim /\ worker[u].claim # 0 => u = v

EndsHere == \A w \in Workers :
    Holds(w) => (Ended <=> worker[w].pc \in {"cleaning", "finish"})

NoneWaits == phase = "running" /\ ~Ended => ~CleanupPending

CanceledKeeps == item.status = "canceled" => ~CleanupPending

Restarts == item.status = "pending" /\ CleanupPending => item.received = 0

Rows == /\ OwnerIsLast /\ ClaimsApart /\ EndsHere
        /\ NoneWaits /\ CanceledKeeps /\ Restarts

LEMMA InitRows == Init => Rows
  BY DEF Init, Rows, OwnerIsLast, ClaimsApart, EndsHere, Holds, NoneWaits,
         CanceledKeeps, Restarts, CleanupPending, IdleWorker

\* A claim is held by one thread at most.
LEMMA OneHolder ==
    ASSUME Rows, NEW u \in Workers, NEW v \in Workers, Holds(u), Holds(v)
    PROVE  u = v
  BY DEF Rows, ClaimsApart, Holds

EndLabels == {"cleaning", "finish"}

\* A step that leaves the job and the item alone, whatever the threads do with
\* the file, takes no thread to its end or away from it.
LEMMA ItemUntouched ==
    ASSUME Rows, UNCHANGED row, UNCHANGED item, gen \in Nat,
           \A u \in Workers : \/ worker'[u].claim = 0
                              \/ /\ worker'[u].claim = worker[u].claim
                                 /\ worker'[u].pc \in EndLabels
                                       <=> worker[u].pc \in EndLabels
    PROVE  Rows'
  <1>1. OwnerIsLast' /\ NoneWaits' /\ CanceledKeeps' /\ Restarts'
    BY
    DEF Rows, OwnerIsLast, NoneWaits, CanceledKeeps, Restarts, row, Ended,
        CleanupPending
  <1>2. ClaimsApart'
    BY DEF Rows, ClaimsApart, row
  <1>3. EndsHere'
    BY DEF Rows, EndsHere, Holds, row, Ended, EndLabels
  <1> QED BY <1>1, <1>2, <1>3 DEF Rows

\* A step of the thread that holds the job.
LEMMA HolderGoesOn ==
    ASSUME Rows, NEW w \in Workers, Holds(w), UNCHANGED row,
           worker'[w].claim = worker[w].claim,
           \A u \in Workers \ {w} : worker'[u] = worker[u],
           Ended' <=> worker'[w].pc \in EndLabels,
           NoneWaits', CanceledKeeps', Restarts'
    PROVE  Rows'
  <1>1. \A u \in Workers : worker'[u].claim = worker[u].claim
    OBVIOUS
  <1>2. OwnerIsLast' /\ ClaimsApart'
    BY <1>1 DEF Rows, OwnerIsLast, ClaimsApart, row
  <1>3. ASSUME NEW u \in Workers, Holds(u)' PROVE u = w
    BY <1>1, <1>3, OneHolder DEF Holds, row
  <1>4. EndsHere'
    BY <1>3 DEF EndsHere, EndLabels
  <1> QED BY <1>2, <1>4 DEF Rows

\* A step of the holder while its item has not ended, and does not.
LEMMA DownloadGoesOn ==
    ASSUME Rows, NEW w \in Workers, Holds(w), UNCHANGED row,
           worker'[w].claim = worker[w].claim,
           \A u \in Workers \ {w} : worker'[u] = worker[u],
           worker[w].pc \notin EndLabels, worker'[w].pc \notin EndLabels,
           \/ item'.status \in {"downloading", "staged", "importing"}
           \/ item'.status = item.status /\ item'.retryable = item.retryable,
           item'.warning = item.warning, item'.claim = item.claim
    PROVE  Rows'
  <1>1. ~Ended /\ phase = "running"
    BY DEF Rows, EndsHere, EndLabels, Holds
  <1>2. ~CleanupPending
    BY <1>1 DEF Rows, NoneWaits
  <1>3. ~Ended' /\ ~CleanupPending'
    BY <1>1, <1>2 DEF Ended, CleanupPending
  <1> QED BY <1>3, HolderGoesOn DEF NoneWaits, CanceledKeeps, Restarts

\* What is done to the row by the cleanup of an item that has ended or waits.
LEMMA CleanableRows ==
    ASSUME TypeOK, Rows, UNCHANGED row, UNCHANGED worker, NEW c \in Cleaners,
           Cleanable(c), item' \in Item, item'.status = item.status,
           item'.retryable = item.retryable, item'.received = item.received,
           CleanupPending
    PROVE  Rows'
  <1>1. item.status # "canceled"
    BY DEF Rows, CanceledKeeps
  <1>2. CanceledKeeps' /\ Restarts'
    BY <1>1 DEF Rows, CanceledKeeps, Restarts
  <1>3. Ended' <=> Ended
    BY DEF Ended
  <1>4. phase = "running" => Ended
    BY DEF Cleanable
  <1>5. NoneWaits'
    BY <1>3, <1>4 DEF NoneWaits, row
  <1>6. OwnerIsLast' /\ ClaimsApart' /\ EndsHere'
    BY <1>3 DEF Rows, OwnerIsLast, ClaimsApart, EndsHere, Holds, row
  <1> QED BY <1>2, <1>5, <1>6 DEF Rows

LEMMA RowsInductive == TypeOK /\ TypeOK' /\ Rows /\ [Next]_vars => Rows'
  <1> SUFFICES ASSUME TypeOK, TypeOK', Rows, [Next]_vars PROVE Rows'
    OBVIOUS
  <1> USE DEF EndLabels
  <1>1. ASSUME NEW w \in Workers, ClaimItem(w) PROVE Rows'
    <2>1. /\ phase = "open" /\ ~CleanupPending /\ item.status # "canceled"
          /\ phase' = "running" /\ owner' = gen + 1 /\ gen' = gen + 1
      BY <1>1 DEF ClaimItem, JobFree
    <2>2. gen \in Nat /\ item \in Item /\ \A u \in Workers : worker[u].claim \in Nat
      BY DEF TypeOK, Worker
    <2>3. \A u \in Workers \ {w} : worker'[u].claim = worker[u].claim
      BY <1>1, ClaimKnows
    <2>4. worker'[w].claim = gen + 1
      BY <1>1, ClaimKnows
    <2>5. \A u \in Workers : worker[u].claim <= gen
      BY DEF Rows, ClaimsApart
    <2>6. OwnerIsLast' /\ ClaimsApart'
      BY <2>1, <2>2, <2>3, <2>4, <2>5 DEF OwnerIsLast, ClaimsApart, Rows
    <2>7. /\ Ended' <=> Ended
          /\ ~CleanupPending' /\ item'.status # "canceled"
      BY <1>1, <2>1, ClaimKnows DEF Ended, CleanupPending
    <2>8. \A u \in Workers : Holds(u)' => u = w
      BY <2>1, <2>2, <2>3, <2>5 DEF Holds
    <2>9. EndsHere'
      BY <1>1, <2>7, <2>8, ClaimKnows DEF EndsHere
    <2> QED BY <2>6, <2>7, <2>9 DEF Rows, NoneWaits, CanceledKeeps, Restarts
  <1>2. ASSUME NEW w \in Workers, Download(w) PROVE Rows'
    <2>1. CASE StartAttempt(w)
      BY <2>1, GoesOn, DownloadGoesOn DEF StartAttempt, At, Label, TypeOK, Item
    <2>2. CASE LinkOrValidate(w)
      BY <2>2, GoesOn, DownloadGoesOn
      DEF LinkOrValidate, At, Label, TypeOK, Item
    <2>3. CASE Prepare(w)
      BY <2>3, PrepareKnows, DownloadGoesOn DEF Prepare, At, TypeOK, Item
    <2>4. CASE ResumeStart(w)
      BY <2>4, ResumeKnows, ItemUntouched DEF ResumeStart, At, TypeOK
    <2>5. CASE Respond(w)
      BY <2>5, RespondKnows, ItemUntouched DEF Respond, At, TypeOK
    <2>6. CASE TruncatePart(w)
      BY <2>6, GoesOn, ItemUntouched DEF TruncatePart, At, Label, TypeOK
    <2>7. CASE UpdateResponseMetadata(w)
      <3>1. /\ item'.status = item.status /\ item'.retryable = item.retryable
            /\ item'.warning = item.warning /\ item'.claim = item.claim
        BY <2>7 DEF UpdateResponseMetadata, TypeOK, Item
      <3>2. Holds(w) /\ UNCHANGED row /\ At(w, "meta")
        BY <2>7 DEF UpdateResponseMetadata
      <3> QED BY <2>7, <3>1, <3>2, MetaKnows, DownloadGoesOn DEF At
    <2>8. CASE OpenPart(w)
      BY <2>8, OpenKnows, ItemUntouched DEF OpenPart, At, TypeOK
    <2>9. CASE NextChunk(w)
      BY <2>9, GoesOn, ItemUntouched DEF NextChunk, At, Label, TypeOK
    <2>10. CASE WriteChunk(w)
      BY <2>10, WriteKnows, ItemUntouched DEF WriteChunk, At, TypeOK
    <2>11. CASE UpdateReceived(w)
      BY <2>11, GoesOn, DownloadGoesOn
      DEF UpdateReceived, At, Label, TypeOK, Item
    <2>12. CASE EndOfStream(w)
      BY <2>12, ClosesFile, DownloadGoesOn
      DEF EndOfStream, At, Label, TypeOK, Item
    <2> QED BY <1>2, <2>1, <2>2, <2>3, <2>4, <2>5, <2>6, <2>7, <2>8, <2>9,
            <2>10, <2>11, <2>12 DEF Download
  <1>3. ASSUME NEW w \in Workers, Import(w) PROVE Rows'
    <2>1. CASE Inspect(w)
      BY <2>1, GoesOn, ItemUntouched DEF Inspect, At, Label, TypeOK
    <2>2. CASE SetImporting(w)
      BY <2>2, GoesOn, DownloadGoesOn DEF SetImporting, At, Label, TypeOK, Item
    <2>3. CASE CopyPart(w)
      BY <2>3, CopyKnows, ItemUntouched DEF CopyPart, At, TypeOK
    <2>4. CASE CommitImport(w)
      BY <2>4, GoesOn, ItemUntouched DEF CommitImport, At, Label, TypeOK
    <2>5. CASE SetItemComplete(w)
      <3>1. Ended' /\ item'.status = "imported"
        BY <2>5 DEF SetItemComplete, Completed, Ended, TypeOK, Item
      <3>2. NoneWaits' /\ CanceledKeeps' /\ Restarts'
        BY <3>1 DEF NoneWaits, CanceledKeeps, Restarts
      <3> QED BY <2>5, <3>1, <3>2, ClosesFile, HolderGoesOn
              DEF SetItemComplete, Label
    <2> QED BY <1>3, <2>1, <2>2, <2>3, <2>4, <2>5 DEF Import
  <1>4. ASSUME NEW w \in Workers, Ends(w) PROVE Rows'
    <2>1. CASE RecordAttemptFailure(w)
      <3>1. ~Ended' /\ ~CleanupPending'
        BY <2>1 DEF RecordAttemptFailure, Ended, CleanupPending, TypeOK, Item
      <3>2. NoneWaits' /\ CanceledKeeps' /\ Restarts'
        BY <3>1 DEF NoneWaits, CanceledKeeps, Restarts
      <3> QED BY <2>1, <3>1, <3>2, ClosesFile, HolderGoesOn
              DEF RecordAttemptFailure, Label
    <2>2. CASE SetItemFailure(w)
      <3>1. Ended' /\ item'.status = "failed"
        BY <2>2 DEF SetItemFailure, Ended, TypeOK, Item
      <3>2. NoneWaits' /\ CanceledKeeps' /\ Restarts'
        BY <3>1 DEF NoneWaits, CanceledKeeps, Restarts
      <3> QED BY <2>2, <3>1, <3>2, ClosesFile, HolderGoesOn
              DEF SetItemFailure, Label
    <2>3. CASE CancelItem(w)
      <3>1. Ended' /\ ~CleanupPending'
        BY <2>3 DEF CancelItem, Ended, CleanupPending, TypeOK, Item
      <3>2. NoneWaits' /\ CanceledKeeps' /\ Restarts'
        BY <3>1 DEF NoneWaits, CanceledKeeps, Restarts
      <3> QED BY <2>3, <3>1, <3>2, ClosesFile, HolderGoesOn
              DEF CancelItem, Label
    <2>4. CASE FinishJob(w)
      <3>1. phase' # "running" /\ owner' = 0 /\ gen' = gen /\ item' = item
        BY <2>4 DEF FinishJob
      <3>2. OwnerIsLast' /\ EndsHere' /\ NoneWaits'
        BY <3>1 DEF OwnerIsLast, EndsHere, Holds, NoneWaits
      <3>3. CanceledKeeps' /\ Restarts'
        BY <3>1 DEF Rows, CanceledKeeps, Restarts, CleanupPending
      <3>4. /\ gen \in Nat
            /\ \A u \in Workers : worker'[u].claim \in {0, worker[u].claim}
        BY <2>4, Leaves DEF FinishJob, TypeOK
      <3>5. ClaimsApart'
        BY <3>1, <3>4 DEF Rows, ClaimsApart
      <3> QED BY <3>2, <3>3, <3>5 DEF Rows
    <2>5. CASE ClaimLost(w)
      BY <2>5, Leaves, ItemUntouched DEF ClaimLost, TypeOK
    <2> QED BY <1>4, <2>1, <2>2, <2>3, <2>4, <2>5 DEF Ends
  <1>5. ASSUME NEW c \in Cleaners, Clean(c) PROVE Rows'
    <2>1. CASE SelectCandidate(c)
      BY <2>1, ItemUntouched DEF SelectCandidate, TypeOK
    <2>2. CASE ClaimCleanup(c)
      <3>1. CleanupPending /\ Cleanable(c)
        BY <2>2 DEF ClaimCleanup, Claimable, CleanupPending
      <3>2. /\ item' \in Item /\ item'.status = item.status
            /\ item'.retryable = item.retryable /\ item'.received = item.received
        BY <2>2 DEF ClaimCleanup, TypeOK, Item
      <3> QED BY <2>2, <3>1, <3>2, CleanableRows DEF ClaimCleanup
    <2>3. CASE RecheckCleanup(c)
      BY <2>3, ItemUntouched DEF RecheckCleanup, TypeOK
    <2>4. CASE UnlinkPart(c)
      BY <2>4, UnlinkKnows, ItemUntouched DEF UnlinkPart, TypeOK
    <2>5. CASE RecordCleanup(c)
      <3>1. CleanupPending /\ Cleanable(c)
        BY <2>5, CleanersAssumption
        DEF RecordCleanup, StillClaimed, CleanupPending
      <3>2. /\ item' \in Item /\ item'.status = item.status
            /\ item'.retryable = item.retryable /\ item'.received = item.received
        BY <2>5 DEF RecordCleanup, TypeOK, Item
      <3> QED BY <2>5, <3>1, <3>2, CleanableRows DEF RecordCleanup
    <2>6. CASE CleanupConflict(c)
      BY <2>6, ItemUntouched DEF CleanupConflict, TypeOK
    <2> QED BY <1>5, <2>1, <2>2, <2>3, <2>4, <2>5, <2>6 DEF Clean
  <1>6. ASSUME NEW c \in Cleaners, CleanFails(c) PROVE Rows'
    BY <1>6, ItemUntouched
    DEF CleanFails, UnlinkFails, CleanupError, TypeOK, row
  <1>7. CASE TakeOver
    <2>1. /\ phase = "running" /\ phase' = "open" /\ owner' = 0
          /\ gen' = gen + 1 /\ item' = Recovered /\ worker' = worker
      BY <1>7 DEF TakeOver
    <2>2. OwnerIsLast' /\ EndsHere' /\ NoneWaits'
      BY <2>1 DEF OwnerIsLast, EndsHere, Holds, NoneWaits
    <2>3. gen \in Nat /\ \A u \in Workers : worker[u].claim \in Nat
      BY DEF TypeOK, Worker
    <2>4. ClaimsApart'
      BY <2>1, <2>3 DEF Rows, ClaimsApart
    <2>5. CASE Ended
      <3>1. /\ item'.status = item.status
            /\ item.status = "canceled" => ~CleanupPending /\ ~CleanupPending'
        BY <2>1, <2>5, RecoveredItem DEF Rows, CanceledKeeps, CleanupPending
      <3> QED BY <2>2, <2>4, <2>5, <3>1
      DEF Rows, CanceledKeeps, Restarts, Ended
    <2>6. CASE ~Ended
      <3>1. /\ item'.status \in {"imported", "pending", "validation_pending"}
            /\ item'.status = "pending" => item'.received = 0 \/ ~CleanupPending'
        BY <2>1, <2>6, RecoveredItem DEF Rows, NoneWaits, CleanupPending
      <3> QED BY <2>2, <2>4, <3>1 DEF Rows, CanceledKeeps, Restarts
    <2> QED BY <2>5, <2>6
  <1>8. CASE ResumeJob
    <2>1. /\ phase = "closed" /\ phase' = "open" /\ UNCHANGED <<owner, gen, worker>>
          /\ ~CleanupPending
          /\ item' = [item EXCEPT !.status = "pending"]
      BY <1>8 DEF ResumeJob
    <2>2. ~CleanupPending' /\ item'.status = "pending"
      BY <2>1 DEF CleanupPending, TypeOK, Item
    <2> QED BY <2>1, <2>2
            DEF Rows, OwnerIsLast, ClaimsApart, EndsHere, Holds, NoneWaits,
                CanceledKeeps, Restarts
  <1>9. CASE Crash
    BY <1>9, ItemUntouched DEF Crash, IdleWorker, TypeOK
  <1>10. CASE UNCHANGED vars
    BY <1>10, ItemUntouched DEF vars, row, TypeOK
  <1> QED BY <1>1, <1>2, <1>3, <1>4, <1>5, <1>6, <1>7, <1>8, <1>9, <1>10
  DEF Next

-----------------------------------------------------------------------------
(***************************************************************************)
(* The cleanups.  Who is about to unlink has an item that has ended for    *)
(* good, or that waits while the cleanup is his, so that nobody claims it. *)
(* A second cleaner would take the claim from one that sits there.         *)
(***************************************************************************)
UnlinkIsPrompt == "unlink" \notin CleanerStalls

EndedForGood == \/ item.status = "imported"
                \/ item.status = "failed" /\ ~item.retryable

Unlinks == \A c \in Cleaners : cleaner[c] = "unlink" =>
    \/ EndedForGood
    \/ /\ item.status = "pending" /\ phase \in {"open", "deferred"}
       /\ item.claim = c /\ item.warning

ItemInv == TypeOK /\ Rows /\ Unlinks

\* An item that has ended for good stays as it is.
LEMMA GoodEnds ==
    ASSUME TypeOK, TypeOK', Rows, EndedForGood, [Next]_vars
    PROVE  EndedForGood'
  <1>1. /\ Ended /\ item \in Item
        /\ \A w \in Workers : Holds(w) => worker[w].pc \in {"cleaning", "finish"}
    BY DEF EndedForGood, Ended, Rows, EndsHere, TypeOK
  <1>2. ASSUME NEW w \in Workers, ClaimItem(w) PROVE EndedForGood'
    BY <1>2, ClaimKnows DEF EndedForGood
  <1>3. ASSUME NEW w \in Workers, Download(w) PROVE EndedForGood'
    <2>1. item' = item
      BY <1>1, <1>3
     
      DEF Download, StartAttempt, LinkOrValidate, Prepare, ResumeStart,
          Respond, TruncatePart, UpdateResponseMetadata, OpenPart, NextChunk,
          WriteChunk, UpdateReceived, EndOfStream, At
    <2> QED BY <2>1 DEF EndedForGood
  <1>4. ASSUME NEW w \in Workers, Import(w) PROVE EndedForGood'
    <2>1. item' = item
      BY <1>1, <1>4
     
      DEF Import, Inspect, SetImporting, CopyPart, CommitImport,
          SetItemComplete, At
    <2> QED BY <2>1 DEF EndedForGood
  <1>5. ASSUME NEW w \in Workers, Ends(w) PROVE EndedForGood'
    <2>1. item' = item
      BY <1>1, <1>5
      DEF Ends, RecordAttemptFailure, SetItemFailure, CancelItem, FinishJob,
          ClaimLost, Interruptible, Refusable
    <2> QED BY <2>1 DEF EndedForGood
  <1>6. ASSUME NEW c \in Cleaners, Clean(c) \/ CleanFails(c)
         PROVE EndedForGood'
    <2>1. item'.status = item.status /\ item'.retryable = item.retryable
      BY <1>1, <1>6
     
      DEF Clean, CleanFails, SelectCandidate, ClaimCleanup, RecheckCleanup,
          UnlinkPart,
          RecordCleanup, CleanupConflict, UnlinkFails, CleanupError, Item
    <2> QED BY <2>1 DEF EndedForGood
  <1>7. CASE TakeOver
    BY <1>1, <1>7, RecoveredItem DEF TakeOver, EndedForGood
  <1>8. CASE ResumeJob
    BY <1>8 DEF ResumeJob, EndedForGood
  <1>9. CASE Crash \/ UNCHANGED vars
    BY <1>9 DEF Crash, vars, EndedForGood
  <1> QED BY <1>2, <1>3, <1>4, <1>5, <1>6, <1>7, <1>8, <1>9 DEF Next

LEMMA InitItemInv == Init => ItemInv
  <1>1. Init => Unlinks
    BY DEF Init, Unlinks
  <1> QED BY <1>1, ItemInitTyped, InitRows DEF ItemInv

LEMMA UnlinksInductive ==
    ASSUME UnlinkIsPrompt, ItemInv, TypeOK', [Next]_vars
    PROVE  Unlinks'
  <1> USE DEF ItemInv
  <1>1. SUFFICES ASSUME NEW c \in Cleaners, cleaner'[c] = "unlink", ~EndedForGood'
                 PROVE  (/\ item.status = "pending" /\ phase \in {"open", "deferred"}
                         /\ item.claim = c /\ item.warning)'
    BY DEF Unlinks
  <1>2. ~EndedForGood
    BY <1>1, GoodEnds
  <1>3. item \in Item /\ cleaner \in [Cleaners -> CleanLabel \cup {"idle"}]
    BY DEF TypeOK
  <1>4. c # NoOne
    BY CleanersAssumption
  <1>5. CASE cleaner[c] # "unlink"
    <2>1. RecheckCleanup(c)
      <3>1. ASSUME NEW d \in Cleaners,
                   NEW l \in {"claim", "recheck", "succeeded", "failed",
                              "idle"},
                   Moves(d, l)
            PROVE  FALSE
        BY <1>1, <1>3, <1>5, <3>1 DEF Moves
      <3>2. ASSUME NEW w \in Workers, SetItemComplete(w) \/ SetItemFailure(w)
            PROVE  FALSE
        BY <1>1, <1>3, <1>5, <3>2 DEF SetItemComplete, SetItemFailure
      <3>3. ~UNCHANGED cleaner
        BY <1>1, <1>5
      <3>4. ~Crash
        BY <1>1 DEF Crash
      <3>5. ASSUME NEW w \in Workers,
                   ClaimItem(w) \/ Download(w) \/ Import(w) \/ Ends(w)
            PROVE  FALSE
        BY <3>2, <3>3, <3>5
       
        DEF ClaimItem, Download, StartAttempt, LinkOrValidate, Prepare,
            ResumeStart, Respond, TruncatePart, UpdateResponseMetadata,
            OpenPart, NextChunk, WriteChunk, UpdateReceived, EndOfStream,
            Import, Inspect, SetImporting, CopyPart, CommitImport, Ends,
            RecordAttemptFailure, CancelItem, FinishJob, ClaimLost
      <3>6. ASSUME NEW d \in Cleaners, CleanFails(d) \/ SelectCandidate(d)
                     \/ ClaimCleanup(d) \/ UnlinkPart(d) \/ RecordCleanup(d)
                     \/ CleanupConflict(d)
            PROVE FALSE
        BY <3>1, <3>6
        DEF CleanFails, SelectCandidate, ClaimCleanup, UnlinkPart,
            RecordCleanup, CleanupConflict, UnlinkFails, CleanupError
      <3>7. ~TakeOver /\ ~ResumeJob /\ ~UNCHANGED vars
        BY <3>3 DEF TakeOver, ResumeJob, vars
      <3>8. PICK d \in Cleaners : RecheckCleanup(d)
        BY <3>4, <3>5, <3>6, <3>7 DEF Next, Clean
      <3>9. d = c
        BY <1>1, <1>3, <1>5, <3>8 DEF RecheckCleanup, Moves
      <3> QED BY <3>8, <3>9
    <2>2. StillClaimed(c) /\ item.warning /\ UNCHANGED <<row, item>>
      BY <2>1 DEF RecheckCleanup
    <2>3. item.status # "canceled"
      BY <2>2 DEF Rows, CanceledKeeps, CleanupPending
    <2> QED BY <1>2, <2>2, <2>3
            DEF StillClaimed, Cleanable, EndedForGood, Ended, row
  <1>6. CASE cleaner[c] = "unlink"
    <2>1. /\ item.status = "pending" /\ phase \in {"open", "deferred"}
          /\ item.claim = c /\ item.warning
      BY <1>2, <1>6 DEF Unlinks
    <2>2. /\ CleanupPending /\ ~Ended
          /\ \A w \in Workers : ~Holds(w)
          /\ ~ClaimFree
      BY <1>4, <1>6, <2>1
      DEF CleanupPending, Ended, Holds, ClaimFree, Aged, UnlinkIsPrompt
    <2>3. UNCHANGED <<phase, item>>
      <3>1. ASSUME NEW w \in Workers,
                   ClaimItem(w) \/ Download(w) \/ Import(w) \/ Ends(w)
            PROVE  UNCHANGED <<phase, item>>
        BY <2>2, <3>1
       
        DEF ClaimItem, JobFree, Download, StartAttempt, LinkOrValidate,
            Prepare, ResumeStart, Respond, TruncatePart,
            UpdateResponseMetadata, OpenPart, NextChunk, WriteChunk,
            UpdateReceived, EndOfStream, Import, Inspect, SetImporting,
            CopyPart, CommitImport, SetItemComplete, Ends,
            RecordAttemptFailure, SetItemFailure, CancelItem, FinishJob,
            ClaimLost, row
      <3>2. ASSUME NEW d \in Cleaners, Clean(d) \/ CleanFails(d)
            PROVE  UNCHANGED <<phase, item>>
        <4>1. ~RecordCleanup(d)
          BY <1>6, <2>1 DEF RecordCleanup, StillClaimed
        <4> QED BY <2>2, <3>2, <4>1
           
            DEF Clean, CleanFails, SelectCandidate, ClaimCleanup, Claimable,
                RecheckCleanup, UnlinkPart,
                CleanupConflict, UnlinkFails, CleanupError, row
      <3>3. ~TakeOver /\ ~ResumeJob
        BY <2>1 DEF TakeOver, ResumeJob
      <3>4. CASE Crash \/ UNCHANGED vars
        BY <3>4 DEF Crash, vars, row
      <3> QED BY <3>1, <3>2, <3>3, <3>4 DEF Next
    <2> QED BY <2>1, <2>3
  <1> QED BY <1>5, <1>6

-----------------------------------------------------------------------------
(***************************************************************************)
(* The file.  A worker that is about to change it still has the claim that *)
(* it checked.  The file of the holder is as long as the response it       *)
(* continues has to begin at, and then as long as what it has written, as  *)
(* long as the handle is that of the file.  So every chunk goes to its     *)
(* place, and what is copied is the image.                                 *)
(***************************************************************************)
FileStepsArePrompt == BetweenCheckAndFile \cap WorkerStalls = {}

HeldAtFile == \A w \in Workers : worker[w].pc \in BetweenCheckAndFile => Holds(w)

Follows(w) ==
    /\ worker[w].pc \in {"request", "meta", "open"} =>
           IF worker[w].append THEN part.there /\ part.size = worker[w].next
           ELSE worker[w].next = 0
    /\ worker[w].pc = "truncate" => ~worker[w].append /\ worker[w].next = 0
    /\ worker[w].pc \in {"chunk", "write", "record"} /\ worker[w].file = "open"
           => part.size = worker[w].next
    /\ worker[w].pc = "write" => worker[w].next < Chunks

HolderFollows == \A w \in Workers : Holds(w) => Follows(w)

NotLonger == part.size <= Chunks

CopiesImage == \A w \in Workers : worker[w].pc = "commit" => worker[w].copied

FileInv == /\ HeldAtFile /\ HolderFollows /\ PartIsPrefix /\ NotLonger
           /\ CopiesImage /\ ImportedIsVerified

LEMMA InitFileInv == Init => FileInv
  BY BoundsAssumption
 
  DEF Init, FileInv, HeldAtFile, HolderFollows, Holds, PartIsPrefix,
      NotLonger, CopiesImage,
      ImportedIsVerified, IdleWorker, Absent, BetweenCheckAndFile

\* A step of the thread w that keeps the job, its claim and the file.
LEMMA FileKept ==
    ASSUME FileInv, NEW w \in Workers, UNCHANGED <<row, part, asset>>,
           worker'[w].claim = worker[w].claim,
           \A u \in Workers \ {w} : worker'[u] = worker[u],
           worker'[w].pc \in BetweenCheckAndFile => Holds(w),
           Holds(w) => Follows(w)',
           worker'[w].pc = "commit" => worker'[w].copied
    PROVE  FileInv'
  <1>1. \A u \in Workers : Holds(u)' <=> Holds(u)
    BY DEF Holds, row
  <1>2. HeldAtFile' /\ HolderFollows'
    BY <1>1 DEF FileInv, HeldAtFile, HolderFollows, Follows
  <1>3. PartIsPrefix' /\ NotLonger' /\ CopiesImage' /\ ImportedIsVerified'
    BY DEF FileInv, PartIsPrefix, NotLonger, CopiesImage, ImportedIsVerified
  <1> QED BY <1>2, <1>3 DEF FileInv

\* A step of the holder that changes the file.
LEMMA FileChanged ==
    ASSUME Rows, FileInv, NEW w \in Workers, Holds(w), UNCHANGED <<row, asset>>,
           worker'[w].claim = worker[w].claim,
           \A u \in Workers \ {w} : worker'[u] = worker[u],
           worker'[w].pc # "commit", Follows(w)', PartIsPrefix', NotLonger'
    PROVE  FileInv'
  <1>1. \A u \in Workers : Holds(u)' <=> Holds(u)
    BY DEF Holds, row
  <1>2. \A u \in Workers \ {w} : ~Holds(u)
    BY OneHolder
  <1>3. HeldAtFile' /\ HolderFollows'
    BY <1>1, <1>2 DEF FileInv, HeldAtFile, HolderFollows
  <1>4. CopiesImage' /\ ImportedIsVerified'
    BY DEF FileInv, CopiesImage, ImportedIsVerified
  <1> QED BY <1>3, <1>4 DEF FileInv

\* A step that leaves the threads alone, and the file.
LEMMA FileUntouched ==
    ASSUME FileInv, UNCHANGED <<worker, part, asset>>, UNCHANGED row
    PROVE  FileInv'
  BY
  DEF FileInv, HeldAtFile, HolderFollows, Follows, Holds, PartIsPrefix,
      NotLonger,
         CopiesImage, ImportedIsVerified, row

LEMMA FileInductive ==
    ASSUME UnlinkIsPrompt, FileStepsArePrompt, ItemInv, ItemInv', FileInv,
           [Next]_vars
    PROVE  FileInv'
  <1> USE DEF BetweenCheckAndFile
  <1>t. /\ TypeOK /\ Rows /\ part \in Part
        /\ \A w \in Workers : worker[w] \in Worker
        /\ \A w \in Workers : worker[w].next \in Nat
        /\ Chunks \in Nat \ {0} /\ part.size \in Nat
    BY BoundsAssumption DEF ItemInv, TypeOK, Part, Worker
  <1>f. /\ part.good /\ part.size <= Chunks
        /\ \A w \in Workers : worker[w].pc = "commit" => worker[w].copied
        /\ \A w \in Workers : worker[w].pc \in BetweenCheckAndFile => Holds(w)
        /\ \A w \in Workers : Holds(w) => Follows(w)
    BY
    DEF FileInv, PartIsPrefix, NotLonger, CopiesImage, HeldAtFile,
        HolderFollows
  <1>1. ASSUME NEW w \in Workers, ClaimItem(w) PROVE FileInv'
    <2>1. /\ phase = "open" /\ phase' = "running" /\ owner' = gen + 1
          /\ UNCHANGED <<part, asset>>
          /\ worker'[w].pc \in {"start", "finish"}
          /\ \A u \in Workers \ {w} : worker'[u] = worker[u]
      BY <1>1, <1>t, ClaimKnows DEF ClaimItem, JobFree
    <2>2. \A u \in Workers : worker[u].claim # gen + 1
      BY <1>t DEF Rows, ClaimsApart, TypeOK, Worker
    <2>3. \A u \in Workers : ~Holds(u) /\ (Holds(u)' => u = w)
      BY <2>1, <2>2 DEF Holds
    <2>4. HeldAtFile'
      BY <1>f, <2>1, <2>3 DEF HeldAtFile
    <2>5. HolderFollows'
      BY <2>1, <2>3 DEF HolderFollows, Follows
    <2>6. PartIsPrefix' /\ NotLonger' /\ CopiesImage' /\ ImportedIsVerified'
      BY <1>f, <2>1
      DEF FileInv, PartIsPrefix, NotLonger, CopiesImage, ImportedIsVerified
    <2> QED BY <2>4, <2>5, <2>6 DEF FileInv
  <1>2. ASSUME NEW w \in Workers, Download(w) PROVE FileInv'
    <2>1. CASE StartAttempt(w)
      BY <1>t, <2>1, GoesOn, FileKept DEF StartAttempt, Label, Follows
    <2>2. CASE LinkOrValidate(w)
      BY <1>t, <2>2, GoesOn, FileKept DEF LinkOrValidate, Label, Follows
    <2>3. CASE Prepare(w)
      BY <1>t, <2>3, PrepareKnows, FileKept DEF Prepare, Follows
    <2>4. CASE ResumeStart(w)
      <3>1. Holds(w) /\ UNCHANGED <<row, asset>>
        BY <1>f, <2>4 DEF ResumeStart, At
      <3>2. Follows(w)'
        BY <1>t, <2>4, ResumeKnows DEF Follows
      <3>3. PartIsPrefix' /\ NotLonger'
        BY <1>t, <1>f, <2>4, ResumeKnows DEF PartIsPrefix, NotLonger, Empty
      <3> QED BY <1>t, <2>4, <3>1, <3>2, <3>3, ResumeKnows, FileChanged
    <2>5. CASE Respond(w)
      <3>1. Holds(w) /\ At(w, "request") /\ UNCHANGED <<row, part, asset>>
        BY <2>5 DEF Respond
      <3>2. Follows(w)'
        BY <1>t, <1>f, <2>5, <3>1, RespondKnows DEF Follows, At
      <3> QED BY <1>t, <2>5, <3>1, <3>2, RespondKnows, FileKept
    <2>6. CASE TruncatePart(w)
      <3>1. /\ Holds(w) /\ UNCHANGED <<row, asset>> /\ part' = Empty
            /\ worker[w].pc \in {"truncate", "restart"}
        BY <1>f, <2>6 DEF TruncatePart
      <3>2. Follows(w)'
        BY <1>t, <1>f, <2>6, <3>1, GoesOn DEF Follows, TruncatePart, Label, At
      <3>3. PartIsPrefix' /\ NotLonger'
        BY <1>t, <3>1 DEF PartIsPrefix, NotLonger, Empty
      <3> QED BY <1>t, <2>6, <3>1, <3>2, <3>3, GoesOn, FileChanged
      DEF TruncatePart, Label
    <2>7. CASE UpdateResponseMetadata(w)
      <3>1. Holds(w) /\ At(w, "meta") /\ UNCHANGED <<row, part, asset>>
        BY <2>7 DEF UpdateResponseMetadata
      <3>2. Follows(w)'
        BY <1>t, <1>f, <2>7, <3>1, MetaKnows DEF Follows, At
      <3> QED BY <1>t, <2>7, <3>1, <3>2, MetaKnows, FileKept
    <2>8. CASE OpenPart(w)
      <3>1. /\ Holds(w) /\ At(w, "open") /\ UNCHANGED <<row, asset>>
            /\ part' = IF worker[w].append /\ part.there THEN part ELSE Empty
        BY <1>f, <2>8 DEF OpenPart, At
      <3>2. part'.size = worker[w].next
        BY <1>f, <3>1 DEF Follows, Empty, At
      <3>3. Follows(w)'
        BY <1>t, <2>8, <3>2, OpenKnows DEF Follows
      <3>4. PartIsPrefix' /\ NotLonger'
        BY <1>t, <1>f, <3>1 DEF PartIsPrefix, NotLonger, Empty
      <3> QED BY <1>t, <2>8, <3>1, <3>3, <3>4, OpenKnows, FileChanged
    <2>9. CASE NextChunk(w)
      <3>1. /\ Holds(w) /\ At(w, "chunk") /\ worker[w].next < Chunks
            /\ UNCHANGED <<row, part, asset>>
        BY <2>9 DEF NextChunk
      <3>2. Follows(w)'
        BY <1>t, <1>f, <2>9, <3>1, GoesOn DEF Follows, NextChunk, Label, At
      <3> QED BY <1>t, <2>9, <3>1, <3>2, GoesOn, FileKept DEF NextChunk, Label
    <2>10. CASE WriteChunk(w)
      <3>1. /\ Holds(w) /\ At(w, "write") /\ UNCHANGED <<row, asset>>
            /\ part' = IF worker[w].file = "open" THEN Written(w) ELSE part
            /\ worker[w].next < Chunks
        BY <1>f, <2>10 DEF WriteChunk, At, Follows
      <3>2. CASE worker[w].file = "open"
        <4>1. part.size = worker[w].next
          BY <1>f, <3>1, <3>2 DEF Follows, At
        <4>2. part'.good /\ part'.size = worker[w].next + 1
          <5>1. CASE worker[w].append
            BY <1>t, <1>f, <3>1, <3>2, <4>1, <5>1 DEF Written, Part
          <5>2. CASE ~worker[w].append
            BY <1>t, <1>f, <3>1, <3>2, <4>1, <5>2 DEF Written, Part
          <5> QED BY <5>1, <5>2
        <4>3. Follows(w)'
          BY <1>t, <2>10, <4>2, WriteKnows DEF Follows
        <4>4. PartIsPrefix' /\ NotLonger'
          BY <1>t, <3>1, <4>2 DEF PartIsPrefix, NotLonger
        <4> QED BY <1>t, <2>10, <3>1, <4>3, <4>4, WriteKnows, FileChanged
      <3>3. CASE worker[w].file # "open"
        <4>1. Follows(w)'
          BY <1>t, <2>10, <3>3, WriteKnows DEF Follows
        <4>2. part' = part
          BY <3>1, <3>3
        <4> QED BY <1>t, <2>10, <3>1, <4>1, <4>2, WriteKnows, FileKept
      <3> QED BY <3>2, <3>3
    <2>11. CASE UpdateReceived(w)
      <3>1. Holds(w) /\ At(w, "record") /\ UNCHANGED <<row, part, asset>>
        BY <2>11 DEF UpdateReceived
      <3>2. Follows(w)'
        BY <1>t, <1>f, <2>11, <3>1, GoesOn
        DEF Follows, UpdateReceived, Label, At
      <3> QED BY <1>t, <2>11, <3>1, <3>2, GoesOn, FileKept
      DEF UpdateReceived, Label
    <2>12. CASE EndOfStream(w)
      BY <1>t, <2>12, ClosesFile, FileKept DEF EndOfStream, Label, Follows
    <2> QED BY <1>2, <2>1, <2>2, <2>3, <2>4, <2>5, <2>6, <2>7, <2>8, <2>9,
            <2>10, <2>11, <2>12 DEF Download
  <1>3. ASSUME NEW w \in Workers, Import(w) PROVE FileInv'
    <2>1. CASE Inspect(w)
      BY <1>t, <2>1, GoesOn, FileKept DEF Inspect, Label, Follows
    <2>2. CASE SetImporting(w)
      BY <1>t, <2>2, GoesOn, FileKept DEF SetImporting, Label, Follows
    <2>3. CASE CopyPart(w)
      <3>1. UNCHANGED <<row, part, asset>>
        BY <2>3 DEF CopyPart
      <3>2. worker'[w].pc = "commit" => worker'[w].copied
        BY <1>t, <1>f, <2>3, CopyKnows
      <3> QED BY <1>t, <2>3, <3>1, <3>2, CopyKnows, FileKept DEF Follows
    <2>4. CASE CommitImport(w)
      <3>1. asset' = "good" /\ UNCHANGED <<row, part>>
        BY <1>f, <2>4 DEF CommitImport, At
      <3>2. /\ worker'[w].pc = "complete" /\ worker'[w].claim = worker[w].claim
            /\ \A u \in Workers \ {w} : worker'[u] = worker[u]
        BY <1>t, <2>4, GoesOn DEF CommitImport, Label
      <3>3. \A u \in Workers : Holds(u)' <=> Holds(u)
        BY <3>1, <3>2 DEF Holds, row
      <3>4. HeldAtFile' /\ HolderFollows'
        BY <1>f, <3>1, <3>2, <3>3 DEF HeldAtFile, HolderFollows, Follows
      <3>5. PartIsPrefix' /\ NotLonger' /\ CopiesImage' /\ ImportedIsVerified'
        BY <1>f, <3>1, <3>2
        DEF PartIsPrefix, NotLonger, CopiesImage, ImportedIsVerified
      <3> QED BY <3>4, <3>5 DEF FileInv
    <2>5. CASE SetItemComplete(w)
      BY <1>t, <2>5, ClosesFile, FileKept DEF SetItemComplete, Label, Follows
    <2> QED BY <1>3, <2>1, <2>2, <2>3, <2>4, <2>5 DEF Import
  <1>4. ASSUME NEW w \in Workers, Ends(w) PROVE FileInv'
    <2>1. CASE RecordAttemptFailure(w)
      BY <1>t, <2>1, ClosesFile, FileKept
      DEF RecordAttemptFailure, Label, Follows
    <2>2. CASE SetItemFailure(w)
      BY <1>t, <2>2, ClosesFile, FileKept DEF SetItemFailure, Label, Follows
    <2>3. CASE CancelItem(w)
      BY <1>t, <2>3, ClosesFile, FileKept DEF CancelItem, Label, Follows
    <2>4. CASE FinishJob(w)
      <3>1. /\ phase' # "running" /\ UNCHANGED <<part, asset>> /\ Holds(w)
            /\ worker[w].pc \in {"finish", "cleaning"}
            /\ worker'[w].pc = "idle"
            /\ \A u \in Workers \ {w} : worker'[u] = worker[u]
        BY <1>t, <2>4, Leaves DEF FinishJob, At
      <3>2. \A u \in Workers : worker'[u].pc \notin BetweenCheckAndFile
        BY <1>t, <1>f, <3>1, OneHolder
      <3>3. HeldAtFile' /\ HolderFollows'
        BY <3>1, <3>2 DEF HeldAtFile, HolderFollows, Holds
      <3>4. PartIsPrefix' /\ NotLonger' /\ CopiesImage' /\ ImportedIsVerified'
        BY <1>f, <3>1
        DEF FileInv, PartIsPrefix, NotLonger, CopiesImage, ImportedIsVerified
      <3> QED BY <3>3, <3>4 DEF FileInv
    <2>5. CASE ClaimLost(w)
      <3>1. /\ UNCHANGED <<row, part, asset>>
            /\ worker'[w].pc = "idle" /\ worker'[w].claim = 0
            /\ \A u \in Workers \ {w} : worker'[u] = worker[u]
        BY <1>t, <2>5, Leaves DEF ClaimLost
      <3>2. \A u \in Workers : Holds(u)' => Holds(u) /\ u # w
        BY <3>1 DEF Holds, row
      <3>3. \A u \in Workers \ {w} : Holds(u) => Holds(u)'
        BY <3>1 DEF Holds, row
      <3>4. HeldAtFile' /\ HolderFollows'
        BY <1>f, <3>1, <3>2, <3>3 DEF HeldAtFile, HolderFollows, Follows
      <3>5. PartIsPrefix' /\ NotLonger' /\ CopiesImage' /\ ImportedIsVerified'
        BY <1>f, <3>1
        DEF FileInv, PartIsPrefix, NotLonger, CopiesImage, ImportedIsVerified
      <3> QED BY <3>4, <3>5 DEF FileInv
    <2> QED BY <1>4, <2>1, <2>2, <2>3, <2>4, <2>5 DEF Ends
  <1>5. ASSUME NEW c \in Cleaners, Clean(c) PROVE FileInv'
    <2>1. CASE UnlinkPart(c)
      <3>1. UNCHANGED <<row, asset>> /\ part' = Absent /\ cleaner[c] = "unlink"
        BY <2>1 DEF UnlinkPart
      <3>2. /\ \A u \in Workers : Holds(u)' <=> Holds(u)
            /\ \A u \in Workers : /\ worker'[u].pc = worker[u].pc
                                   /\ worker'[u].copied = worker[u].copied
        BY <1>t, <2>1, <3>1, UnlinkKnows DEF Holds, row
      <3>3. \A u \in Workers : Holds(u) => worker[u].pc \in {"cleaning", "finish"}
        <4>1. Ended \/ phase # "running"
          BY <3>1 DEF ItemInv, Unlinks, EndedForGood, Ended
        <4> QED BY <1>t, <4>1 DEF Rows, EndsHere, Holds
      <3>4. HeldAtFile' /\ HolderFollows'
        BY <1>f, <3>2, <3>3 DEF HeldAtFile, HolderFollows, Follows
      <3>5. PartIsPrefix' /\ NotLonger'
        BY <1>t, <3>1 DEF PartIsPrefix, NotLonger, Absent
      <3>6. CopiesImage' /\ ImportedIsVerified'
        BY <1>f, <3>1, <3>2 DEF FileInv, CopiesImage, ImportedIsVerified
      <3> QED BY <3>4, <3>5, <3>6 DEF FileInv
    <2>2. CASE ~UnlinkPart(c)
      BY <1>5, <2>2, FileUntouched
     
      DEF Clean, SelectCandidate, ClaimCleanup, RecheckCleanup, RecordCleanup,
          CleanupConflict
    <2> QED BY <2>1, <2>2
  <1>6. ASSUME NEW c \in Cleaners, CleanFails(c) PROVE FileInv'
    BY <1>6, FileUntouched DEF CleanFails, UnlinkFails, CleanupError
  <1>7. CASE TakeOver
    <2>1. /\ phase' = "open" /\ UNCHANGED <<part, asset, worker>>
          /\ \A w \in Workers : Holds(w) => worker[w].pc \in WorkerStalls
      BY <1>7 DEF TakeOver
    <2>2. \A w \in Workers : worker[w].pc \notin BetweenCheckAndFile
      BY <1>f, <2>1 DEF FileStepsArePrompt
    <2> QED BY <1>f, <2>1, <2>2
           
            DEF FileInv, HeldAtFile, HolderFollows, Holds, PartIsPrefix,
                NotLonger,
                CopiesImage, ImportedIsVerified
  <1>8. CASE ResumeJob
    <2>1. /\ phase = "closed" /\ phase' = "open" /\ UNCHANGED <<part, asset, worker>>
      BY <1>8 DEF ResumeJob
    <2> QED BY <1>f, <2>1
           
            DEF FileInv, HeldAtFile, HolderFollows, Holds, PartIsPrefix,
                NotLonger,
                CopiesImage, ImportedIsVerified
  <1>9. CASE Crash
    <2>1. UNCHANGED <<part, asset>> /\ \A w \in Workers : worker'[w] = IdleWorker
      BY <1>9 DEF Crash
    <2> QED BY <1>f, <2>1
           
            DEF FileInv, HeldAtFile, HolderFollows, Holds, PartIsPrefix,
                NotLonger,
                CopiesImage, ImportedIsVerified, IdleWorker
  <1>10. CASE UNCHANGED vars
    BY <1>10, FileUntouched DEF vars, row
  <1> QED BY <1>1, <1>2, <1>3, <1>4, <1>5, <1>6, <1>7, <1>8, <1>9, <1>10
  DEF Next

-----------------------------------------------------------------------------
(* the theorems *)

\* Every reachable state has the shapes of TypeOK.
THEOREM ItemTypeCorrect == Spec => []TypeOK
  BY ItemInitTyped, TypeInductive, PTL DEF Spec

LEMMA ItemInvariant == UnlinkIsPrompt /\ Spec => []ItemInv
  <1>1. UnlinkIsPrompt /\ ItemInv /\ [Next]_vars => ItemInv'
    <2> SUFFICES ASSUME UnlinkIsPrompt, ItemInv, [Next]_vars PROVE ItemInv'
      OBVIOUS
    <2>1. TypeOK'
      BY TypeInductive DEF ItemInv
    <2>2. Rows'
      BY <2>1, RowsInductive DEF ItemInv
    <2>3. Unlinks'
      BY <2>1, UnlinksInductive
    <2> QED BY <2>1, <2>2, <2>3 DEF ItemInv
  <1>2. CASE UnlinkIsPrompt
    BY <1>1, <1>2, InitItemInv, PTL DEF Spec
  <1> QED BY <1>2

LEMMA FileInvariant == UnlinkIsPrompt /\ FileStepsArePrompt /\ Spec => []FileInv
  <1>1. ASSUME UnlinkIsPrompt, FileStepsArePrompt
        PROVE  FileInv /\ ItemInv /\ ItemInv' /\ [Next]_vars => FileInv'
    BY <1>1, FileInductive
  <1>2. CASE UnlinkIsPrompt /\ FileStepsArePrompt
    BY <1>1, <1>2, ItemInvariant, InitFileInv, PTL DEF Spec
  <1> QED BY <1>2

\* What is registered as an image is what inspect_image accepted
\* (_import_item), whoever the claims went to meanwhile.
THEOREM OnlyVerifiedIsImported ==
    UnlinkIsPrompt /\ FileStepsArePrompt /\ Spec => []ImportedIsVerified
  <1>1. FileInv => ImportedIsVerified
    BY DEF FileInv
  <1> QED BY <1>1, FileInvariant, PTL

\* The file holds the first chunks of the image and nothing else, however often
\* its download is interrupted, taken over and continued by a Range request.
THEOREM FileIsPrefix ==
    UnlinkIsPrompt /\ FileStepsArePrompt /\ Spec => []PartIsPrefix
  <1>1. FileInv => PartIsPrefix
    BY DEF FileInv
  <1> QED BY <1>1, FileInvariant, PTL

LEMMA DeadPartsStep ==
    ASSUME ItemInv, [Next]_vars, part.there, ~part'.there
    PROVE  \/ item.status = "imported"
           \/ item.status = "failed" /\ ~item.retryable
           \/ item.status = "pending" /\ phase # "running" /\ item.received = 0
  <1>1. ASSUME NEW c \in Cleaners, UnlinkPart(c)
        PROVE  \/ EndedForGood
               \/ item.status = "pending" /\ phase # "running" /\ item.received = 0
    <2>1. \/ EndedForGood
          \/ /\ item.status = "pending" /\ item.warning
             /\ phase \in {"open", "deferred"}
      BY <1>1 DEF UnlinkPart, ItemInv, Unlinks
    <2> QED BY <2>1 DEF ItemInv, Rows, Restarts, CleanupPending
  <1>2. CASE \A c \in Cleaners : ~UnlinkPart(c)
    <2>1. ASSUME NEW w \in Workers, Download(w) PROVE FALSE
      <3>1. CASE ResumeStart(w)
        BY <1>2, <3>1 DEF ResumeStart, Empty
      <3>2. CASE TruncatePart(w)
        BY <3>2 DEF TruncatePart, Empty
      <3>3. CASE OpenPart(w)
        BY <3>3 DEF OpenPart, Empty
      <3>4. CASE WriteChunk(w)
        <4>1. part \in Part
          BY DEF ItemInv, TypeOK
        <4>2. Written(w).there
          BY <4>1 DEF Written, Part
        <4> QED BY <3>4, <4>2 DEF WriteChunk
      <3> QED BY <2>1, <3>1, <3>2, <3>3, <3>4
          DEF Download, StartAttempt, LinkOrValidate, Prepare, Respond,
              UpdateResponseMetadata, NextChunk, UpdateReceived, EndOfStream
    <2>2. ASSUME NEW w \in Workers, ClaimItem(w) \/ Import(w) \/ Ends(w)
          PROVE  FALSE
      BY <2>2
      DEF ClaimItem, Import, Inspect, SetImporting, CopyPart, CommitImport,
          SetItemComplete, Ends, RecordAttemptFailure, SetItemFailure,
          CancelItem, FinishJob, ClaimLost
    <2>3. ASSUME NEW c \in Cleaners, Clean(c) \/ CleanFails(c) PROVE FALSE
      BY <1>2, <2>3
      DEF Clean, SelectCandidate, ClaimCleanup, RecheckCleanup, RecordCleanup,
          CleanupConflict, CleanFails, UnlinkFails, CleanupError
    <2>4. CASE TakeOver \/ ResumeJob \/ Crash \/ UNCHANGED vars
      BY <2>4 DEF TakeOver, ResumeJob, Crash, vars
    <2> QED BY <2>1, <2>2, <2>3, <2>4 DEF Next
  <1> QED BY <1>1, <1>2 DEF EndedForGood

\* The file is removed only when its item has ended for good, or waits, reset,
\* in a job that nobody holds: _cleanup_part_item never removes it under a
\* download, nor what a retry or a canceled item keeps.
THEOREM OnlyDeadPartsGo == UnlinkIsPrompt /\ Spec => OnlyDeadPartsRemoved
  <1>1. ItemInv /\ [Next]_vars =>
            [part.there /\ ~part'.there =>
                \/ item.status = "imported"
                \/ item.status = "failed" /\ ~item.retryable
                \/ item.status = "pending" /\ phase # "running" /\ item.received = 0]_vars
    BY DeadPartsStep
  <1> QED BY <1>1, ItemInvariant, PTL DEF Spec, OnlyDeadPartsRemoved

-----------------------------------------------------------------------------
(***************************************************************************)
(* The inductive invariant.  Plans are numbered by their count, so that a  *)
(* new plan has a number of its own; a reservation names the plan that has *)
(* the post; candidates do not change once they are accepted, so that what *)
(* was validated before the INSERT is still true of them after it.         *)
(***************************************************************************)
Numbered == IsFiniteSet(plans) /\ \A plan \in plans : plan.id \in 1..Cardinality(plans)

Distinct == \A i, j \in plans : i.id = j.id \/ i.preview = j.preview => i = j

Reserved ==
    /\ \A plan \in plans : \A p \in Posts :
           reservation[p] = plan.id <=> p \in plan.preview.items
    /\ \A p \in Posts :
           reservation[p] # 0 => \E plan \in plans : plan.id = reservation[p]

\* the candidates that a preview took up are as it says
Backed(pv) ==
    \A p \in pv.items : /\ result[pv.search][p].accepted
                        /\ result[pv.search][p].version = pv.version[p]

Validated ==
    /\ \A plan \in plans : Backed(plan.preview)
    /\ \A c \in Callers : confirming[c] => Backed(preview[c])

PlanInv == PlanTypeOK /\ Numbered /\ Distinct /\ Reserved /\ Validated

-----------------------------------------------------------------------------
(* the shapes of the state *)

LEMMA InitPlanInv == PlanInit => PlanInv
  <1> SUFFICES ASSUME PlanInit PROVE PlanInv
    OBVIOUS
  <1>1. PlanTypeOK
    BY PlansAssumption DEF PlanInit, PlanTypeOK, SearchStatus, Result
  <1>2. Numbered
    BY FS_EmptySet DEF PlanInit, Numbered
  <1>3. Distinct /\ Reserved /\ Validated
    BY DEF PlanInit, Distinct, Reserved, Validated
  <1> QED BY <1>1, <1>2, <1>3 DEF PlanInv

\* A page makes at most one candidate, of a post that had none.
LEMMA PageAdds ==
    ASSUME PlanTypeOK, NEW s \in Searches, CommitPage(s)
    PROVE  /\ post' \in [Posts -> Versions \cup {"unseen"}]
           /\ status' \in [Searches -> SearchStatus]
           /\ result' \in [Searches -> [Posts -> Result]]
           /\ \A t \in Searches, p \in Posts :
                 result[t][p].accepted => result'[t][p] = result[t][p]
  <1>1. PICK q \in Posts, v \in Versions :
            /\ post' = [post EXCEPT ![q] = v]
            /\ result' = IF result[s][q] # NoResult THEN result
                         ELSE [result EXCEPT ![s][q] =
                                  [version |-> v, accepted |-> Acceptable(q)]]
    BY DEF CommitPage
  <1>2. post' \in [Posts -> Versions \cup {"unseen"}]
    BY <1>1 DEF PlanTypeOK
  <1>3. status' \in [Searches -> SearchStatus]
    BY DEF CommitPage, PlanTypeOK, SearchStatus
  <1>4. CASE result[s][q] # NoResult
    BY <1>1, <1>2, <1>3, <1>4 DEF PlanTypeOK
  <1>5. CASE result[s][q] = NoResult
    <2> DEFINE r == [version |-> v, accepted |-> Acceptable(q)]
    <2>1. r \in Result
      BY DEF Result, Acceptable, Planned
    <2>2. result' = [result EXCEPT ![s][q] = r]
      BY <1>1, <1>5
    <2> HIDE DEF r
    <2>3. result' \in [Searches -> [Posts -> Result]]
      BY <2>1, <2>2 DEF PlanTypeOK
    <2>4. ~result[s][q].accepted
      BY <1>5 DEF NoResult
    <2>5. \A t \in Searches, p \in Posts :
              result[t][p].accepted => result'[t][p] = result[t][p]
      BY <2>2, <2>4 DEF PlanTypeOK
    <2> QED BY <1>2, <1>3, <2>3, <2>5
  <1> QED BY <1>4, <1>5

\* What InsertPlan adds, if it adds anything.
Added(c) == [id |-> Cardinality(plans) + 1, preview |-> preview[c]]

LEMMA PlanAdds ==
    ASSUME PlanInv, NEW c \in Callers, confirming[c], Cardinality(plans) < MaxPlans
    PROVE  /\ Added(c) \in Plan
           /\ Added(c).id \in Nat \ {0}
           /\ IsFiniteSet(plans \cup {Added(c)})
           /\ Cardinality(plans \cup {Added(c)}) = Cardinality(plans) + 1
           /\ \A plan \in plans : plan.id # Added(c).id
  <1>1. Cardinality(plans) \in Nat
    BY FS_CardinalityType DEF PlanInv, Numbered
  <1>2. Added(c) \in Plan /\ Added(c).id \in Nat \ {0}
    BY <1>1, PlansAssumption DEF Added, Plan, PlanInv, PlanTypeOK
  <1>3. \A plan \in plans : plan.id # Added(c).id
    BY <1>1 DEF PlanInv, Numbered, Added
  <1>4. Added(c) \notin plans
    BY <1>3
  <1> QED BY <1>1, <1>2, <1>3, <1>4, FS_AddElement DEF PlanInv, Numbered

-----------------------------------------------------------------------------
(* the invariant is inductive *)

LEMMA PlanInductive == PlanInv /\ [PlanNext]_planVars => PlanInv'
  <1> SUFFICES ASSUME PlanInv, [PlanNext]_planVars PROVE PlanInv'
    OBVIOUS
  <1> USE DEF PlanInv
  <1>1. ASSUME NEW s \in Searches, CommitPage(s) PROVE PlanInv'
    <2>1. UNCHANGED <<reservation, plans, preview, confirming>>
      BY <1>1 DEF CommitPage
    <2>2. PlanTypeOK'
      BY <1>1, <2>1, PageAdds DEF PlanTypeOK
    <2>3. Numbered' /\ Distinct' /\ Reserved'
      BY <2>1 DEF Numbered, Distinct, Reserved
    <2>4. ASSUME NEW pv \in Preview, Backed(pv) PROVE Backed(pv)'
      BY <1>1, <2>4, PageAdds DEF Backed, Preview
    <2>5. Validated'
      BY <2>1, <2>4 DEF Validated, PlanTypeOK, Plan
    <2> QED BY <2>2, <2>3, <2>5
  <1>2. ASSUME NEW c \in Callers, PreviewPlan(c) PROVE PlanInv'
    <2>1. ~confirming[c] /\ UNCHANGED <<post, status, result, reservation, plans, confirming>>
      BY <1>2 DEF PreviewPlan
    <2>2. PICK s \in Searches : \E items \in SUBSET Accepted(s) :
              preview' = [preview EXCEPT ![c] =
                  [search |-> s, items |-> items,
                   version |-> [p \in Posts |-> IF p \in items THEN post[p]
                                                ELSE "unseen"]]]
      BY <1>2 DEF PreviewPlan
    <2>3. PICK items \in SUBSET Accepted(s) :
              preview' = [preview EXCEPT ![c] =
                  [search |-> s, items |-> items,
                   version |-> [p \in Posts |-> IF p \in items THEN post[p]
                                                ELSE "unseen"]]]
      BY <2>2
    <2> DEFINE pv == [search |-> s, items |-> items,
                      version |-> [p \in Posts |-> IF p \in items THEN post[p]
                                                   ELSE "unseen"]]
    <2>4. pv \in Preview
      BY DEF Preview, Accepted, PlanTypeOK
    <2>5. preview' = [preview EXCEPT ![c] = pv]
      BY <2>3
    <2> HIDE DEF pv
    <2>6. /\ preview' \in [Callers -> Preview \cup {NoPreview}]
          /\ \A d \in Callers \ {c} : preview'[d] = preview[d]
      BY <2>4, <2>5 DEF PlanTypeOK
    <2>7. PlanTypeOK'
      BY <2>1, <2>6 DEF PlanTypeOK
    <2>8. Numbered' /\ Distinct' /\ Reserved'
      BY <2>1 DEF Numbered, Distinct, Reserved
    <2>9. Validated'
      BY <2>1, <2>6 DEF Validated, Backed
    <2> QED BY <2>7, <2>8, <2>9
  <1>3. ASSUME NEW c \in Callers, ConfirmPlan(c) PROVE PlanInv'
    <2>1. /\ preview[c] # NoPreview
          /\ \A p \in preview[c].items : ItemConfirmable(preview[c], p)
          /\ confirming' = [confirming EXCEPT ![c] = TRUE]
          /\ UNCHANGED <<post, status, result, reservation, plans, preview>>
      BY <1>3 DEF ConfirmPlan
    <2>2. confirming' \in [Callers -> BOOLEAN]
          /\ \A d \in Callers \ {c} : confirming'[d] = confirming[d]
      BY <2>1 DEF PlanTypeOK
    <2>3. PlanTypeOK'
      BY <2>1, <2>2 DEF PlanTypeOK
    <2>4. Numbered' /\ Distinct' /\ Reserved'
      BY <2>1 DEF Numbered, Distinct, Reserved
    <2>5. Backed(preview[c])
      BY <2>1 DEF Backed, ItemConfirmable
    <2>6. Validated'
      BY <2>1, <2>2, <2>5 DEF Validated, Backed
    <2> QED BY <2>3, <2>4, <2>6
  <1>4. ASSUME NEW c \in Callers, InsertPlan(c) PROVE PlanInv'
    <2>1. /\ confirming[c]
          /\ confirming' = [confirming EXCEPT ![c] = FALSE]
          /\ UNCHANGED <<post, status, result, preview>>
      BY <1>4 DEF InsertPlan
    <2>2. /\ confirming' \in [Callers -> BOOLEAN]
          /\ \A d \in Callers : confirming'[d] => confirming[d]
      BY <2>1 DEF PlanTypeOK
    <2>3. CASE UNCHANGED <<plans, reservation>>
      <3>1. PlanTypeOK'
        BY <2>1, <2>2, <2>3 DEF PlanTypeOK
      <3>2. Numbered' /\ Distinct' /\ Reserved'
        BY <2>3 DEF Numbered, Distinct, Reserved
      <3>3. Validated'
        BY <2>1, <2>2, <2>3 DEF Validated, Backed
      <3> QED BY <3>1, <3>2, <3>3
    <2>4. ASSUME Existing(preview[c]) = {}, Taken(preview[c]) = {},
                 Cardinality(plans) < MaxPlans,
                 plans' = plans \cup {Added(c)},
                 reservation' = [p \in Posts |->
                     IF p \in preview[c].items THEN Added(c).id ELSE reservation[p]]
          PROVE  PlanInv'
      <3> DEFINE new == Added(c)
      <3>1. /\ new \in Plan /\ new.id \in Nat \ {0} /\ new.preview = preview[c]
            /\ new.id = Cardinality(plans) + 1
            /\ IsFiniteSet(plans') /\ Cardinality(plans') = Cardinality(plans) + 1
            /\ \A plan \in plans : plan.id # new.id
        BY <2>1, <2>4, PlanAdds DEF Added
      <3>2. preview[c] \in Preview /\ preview[c].items \subseteq Posts
        BY <2>1 DEF PlanTypeOK, Preview
      <3>3. \A p \in preview[c].items : reservation[p] = 0
        BY <2>4 DEF Taken
      <3>4. \A plan \in plans : plan.preview # preview[c]
        BY <2>4 DEF Existing
      <3>5. Cardinality(plans) \in Nat
        BY FS_CardinalityType DEF Numbered
      <3>6. plans' = plans \cup {new}
        BY <2>4
      <3>7. \A p \in Posts :
                reservation'[p] = IF p \in preview[c].items THEN new.id
                                  ELSE reservation[p]
        BY <2>4
      <3>8. reservation' \in [Posts -> 0..MaxPlans]
        BY <2>4, <3>1, <3>5, PlansAssumption DEF PlanTypeOK
      <3> HIDE DEF new
      <3>9. PlanTypeOK'
        BY <2>1, <2>2, <3>1, <3>6, <3>8 DEF PlanTypeOK
      <3>10. Numbered'
        BY <3>1, <3>5, <3>6 DEF Numbered
      <3>11. Distinct'
        BY <3>1, <3>4, <3>6 DEF Distinct
      <3>12. Reserved'
        <4>1. ASSUME NEW plan \in plans', NEW p \in Posts
              PROVE  reservation'[p] = plan.id <=> p \in plan.preview.items
          <5>1. CASE plan = new
            <6>1. reservation[p] # new.id
              BY <3>1 DEF Reserved
            <6> QED BY <3>1, <3>7, <5>1, <6>1
          <5>2. CASE plan \in plans
            <6>1. plan.id # new.id /\ plan.id # 0
              BY <3>1, <3>5, <5>2 DEF Numbered
            <6>2. reservation[p] = plan.id <=> p \in plan.preview.items
              BY <5>2 DEF Reserved
            <6>3. p \in preview[c].items => p \notin plan.preview.items
              BY <3>3, <6>1, <6>2
            <6> QED BY <3>7, <6>1, <6>2, <6>3
          <5> QED BY <3>6, <5>1, <5>2
        <4>2. ASSUME NEW p \in Posts, reservation'[p] # 0
              PROVE  \E plan \in plans' : plan.id = reservation'[p]
          BY <3>6, <3>7, <4>2 DEF Reserved
        <4> QED BY <4>1, <4>2 DEF Reserved
      <3>13. Validated'
        <4>1. Backed(preview[c])
          BY <2>1 DEF Validated
        <4> QED BY <2>1, <2>2, <3>1, <3>6, <4>1 DEF Validated, Backed
      <3> QED BY <3>9, <3>10, <3>11, <3>12, <3>13
    <2> QED BY <1>4, <2>3, <2>4 DEF InsertPlan, Added
  <1>5. CASE UNCHANGED planVars
    BY <1>5
    DEF planVars, PlanTypeOK, Numbered, Distinct, Reserved, Validated, Backed
  <1> QED BY <1>1, <1>2, <1>3, <1>4, <1>5 DEF PlanNext

-----------------------------------------------------------------------------
(* the theorems *)

LEMMA PlanInvariant == PlanSpec => []PlanInv
  BY InitPlanInv, PlanInductive, PTL DEF PlanSpec

\* Every state has the shapes of PlanTypeOK.
THEOREM PlanTypeCorrect == PlanSpec => []PlanTypeOK
  <1>1. PlanInv => PlanTypeOK
    BY DEF PlanInv
  <1> QED BY PlanInvariant, <1>1, PTL

\* A post is in one plan at most and reserved for that plan, however many
\* callers confirm whatever previews at once (confirm_plan).
THEOREM PostsPlannedOnce == PlanSpec => []PlannedOnce
  <1>1. ASSUME PlanInv PROVE PlannedOnce
    <2>1. ASSUME NEW i \in plans, NEW j \in plans, i.preview.items \cap j.preview.items # {}
          PROVE  i = j
      <3>1. PICK p \in i.preview.items : p \in j.preview.items
        BY <2>1
      <3>2. p \in Posts
        BY <1>1, <3>1 DEF PlanInv, PlanTypeOK, Plan, Preview
      <3>3. i.id = j.id
        BY <1>1, <3>1, <3>2 DEF PlanInv, Reserved
      <3> QED BY <1>1, <3>3 DEF PlanInv, Distinct
    <2>2. ASSUME NEW p \in Posts
          PROVE  reservation[p] # 0 <=> \E plan \in plans : p \in plan.preview.items
      <3>1. \A plan \in plans : plan.id # 0
        BY <1>1, FS_CardinalityType DEF PlanInv, Numbered
      <3> QED BY <1>1, <3>1 DEF PlanInv, Reserved
    <2> QED BY <2>1, <2>2 DEF PlannedOnce
  <1> QED BY PlanInvariant, <1>1, PTL

\* A preview becomes one plan, whoever confirms it how often.
THEOREM PreviewsConfirmedOnce == PlanSpec => []ConfirmedOnce
  <1>1. PlanInv => ConfirmedOnce
    BY DEF PlanInv, Distinct, ConfirmedOnce
  <1> QED BY PlanInvariant, <1>1, PTL

\* A confirmed plan passes the checks of start_job for ever.
THEOREM PlansStartable == PlanSpec => []ConfirmedStartable
  <1>1. ASSUME PlanInv PROVE ConfirmedStartable
    <2> SUFFICES ASSUME NEW plan \in plans PROVE Startable(plan)
      BY DEF ConfirmedStartable
    <2>1. plan.preview.items \subseteq Posts
      BY <1>1 DEF PlanInv, PlanTypeOK, Plan, Preview
    <2>2. {p \in Posts : reservation[p] = plan.id} = plan.preview.items
      BY <1>1, <2>1 DEF PlanInv, Reserved
    <2>3. Backed(plan.preview)
      BY <1>1 DEF PlanInv, Validated
    <2> QED BY <2>2, <2>3 DEF Startable, Backed
  <1> QED BY PlanInvariant, <1>1, PTL
=============================================================================
