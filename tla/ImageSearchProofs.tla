------------------------- MODULE ImageSearchProofs -------------------------
(***************************************************************************)
(* Theorems about ImageSearch: the candidates are counted, the committed   *)
(* pages are a chain and a COMPLETED search is whole, for any number of    *)
(* threads, stalls, cancellations and crashes and for any source.          *)
(***************************************************************************)
EXTENDS ImageSearch, FiniteSetTheorems, WellFoundedInduction, TLAPS

(***************************************************************************)
(* The inductive invariant.                                                *)
(***************************************************************************)

\* Where the chain of the committed pages goes on.
Reached(cursor) == cursor # NoCursor => \E k \in pages : k.next = cursor

\* The cursor at which the next worker begins, until the search has ended.
RequestReached ==
    row.status \in {"queued", "running", "stale"} \/ row.owner # 0
    => Reached(row.request)

\* The cursors that a worker brings along, wherever it is.
Working(w) ==
    /\ ~At(w, "idle") => worker[w].claim # 0
    /\ Reached(worker[w].cursor)
    /\ At(w, "limits") => Reached(NextCursor(w))

Finite == IsFiniteSet(candidates) /\ IsFiniteSet(pages)

\* What CandidatesCounted says, with the uniqueness of a post in place of the
\* number of the posts.
OncePerPost == \A c, d \in candidates : c.post = d.post => c = d
Counted ==
    /\ OncePerPost
    /\ {c.order : c \in candidates} = 0..(row.returned - 1)
    /\ Cardinality(candidates) = row.returned
    /\ row.returned <= MaxCandidates

\* PagesChained does not follow from itself: a page is committed for the cursor
\* that its worker remembers, which was the row's when the search was claimed.
IInv ==
    /\ TypeOK /\ Finite /\ Counted
    /\ RequestReached /\ \A w \in Workers : Working(w)
    /\ PagesChained /\ CompletedIsWhole

-----------------------------------------------------------------------------
(* counting *)

\* How many members of D come before i.
Rank(D, i) == Cardinality({j \in D : j < i})

LEMMA RankGrows ==
    ASSUME NEW D \in SUBSET Nat, IsFiniteSet(D),
           NEW i \in D, NEW j \in D, i < j
    PROVE  Rank(D, i) < Rank(D, j) /\ Rank(D, j) \in 0..(Cardinality(D) - 1)
  <1> DEFINE A == {k \in D : k < i}
             B == {k \in D : k < j}
  <1>1. /\ IsFiniteSet(A) /\ IsFiniteSet(B)
        /\ Cardinality(B) <= Cardinality(D)
        /\ Cardinality(D) = Cardinality(B) => D = B
    BY FS_Subset
  <1>2. /\ Cardinality(A) \in Nat /\ Cardinality(B) \in Nat
        /\ Cardinality(D) \in Nat
    BY <1>1, FS_CardinalityType
  <1>3. i \in Nat /\ j \in Nat /\ i \in B /\ i \notin A /\ j \notin B
    OBVIOUS
  <1>4. A \subseteq B
    <2> SUFFICES ASSUME NEW k \in A PROVE k < j
      OBVIOUS
    <2>1. k \in Nat /\ k < i
      OBVIOUS
    <2> QED BY <1>3, <2>1
  <1>5. Cardinality(A) <= Cardinality(B)
        /\ (Cardinality(B) = Cardinality(A) => A = B)
    BY <1>1, <1>4, FS_Subset
  <1>6. Cardinality(A) < Cardinality(B)
    BY <1>2, <1>3, <1>5
  <1>7. Cardinality(B) < Cardinality(D)
    BY <1>1, <1>2, <1>3
  <1> QED BY <1>2, <1>6, <1>7 DEF Rank

LEMMA RankType ==
    ASSUME NEW D \in SUBSET Nat, IsFiniteSet(D), NEW i \in D
    PROVE  Rank(D, i) \in 0..(Cardinality(D) - 1)
  <1> DEFINE A == {k \in D : k < i}
  <1>1. /\ IsFiniteSet(A) /\ Cardinality(A) <= Cardinality(D)
        /\ Cardinality(D) = Cardinality(A) => D = A
    BY FS_Subset
  <1>2. Cardinality(A) \in Nat /\ Cardinality(D) \in Nat
    BY <1>1, FS_CardinalityType
  <1>3. i \notin A
    OBVIOUS
  <1> QED BY <1>1, <1>2, <1>3 DEF Rank

\* The ranks of a finite set are gapless.
LEMMA RankOnto ==
    ASSUME NEW D \in SUBSET Nat, IsFiniteSet(D),
           NEW n \in 0..(Cardinality(D) - 1)
    PROVE  \E i \in D : Rank(D, i) = n
  <1> DEFINE T == 0..(Cardinality(D) - 1)
             f == [i \in D |-> Rank(D, i)]
  <1>1. Cardinality(D) \in Nat
    BY FS_CardinalityType
  <1>2. IsFiniteSet(T) /\ Cardinality(T) = Cardinality(D)
    BY <1>1, FS_Interval
  <1>3. f \in [D -> T]
    BY RankType
  <1>4. \A i, j \in D : i < j => Rank(D, i) < Rank(D, j) /\ Rank(D, j) \in Nat
    BY <1>1, RankGrows
  <1>5. \A i, j \in D : f[i] = f[j] => i = j
    <2> SUFFICES ASSUME NEW i \in D, NEW j \in D, f[i] = f[j], i # j
                 PROVE  FALSE
      OBVIOUS
    <2>1. i < j \/ j < i
      OBVIOUS
    <2>2. Rank(D, i) \in Nat /\ Rank(D, j) \in Nat
      BY <1>1, RankType
    <2> QED BY <1>4, <2>1, <2>2
  <1>6. f \in Injection(D, T)
    BY <1>3, <1>5 DEF Injection, IsInjective
  <1> HIDE DEF f, T
  <1>7. f \in Surjection(D, T)
    BY <1>2, <1>6, FS_Injection
  <1> QED BY <1>7 DEF Surjection, f, T

-----------------------------------------------------------------------------
(* one page *)

\* The new posts of a page are different from each other.
LEMMA NewPlaces ==
    ASSUME TypeOK, NEW w \in Workers
    PROVE  /\ NewAt(w) \in SUBSET Nat /\ IsFiniteSet(NewAt(w))
           /\ \A i \in NewAt(w) : worker[w].page[i] \in Posts \ Found
           /\ \A i, j \in NewAt(w) :
                 worker[w].page[i] = worker[w].page[j] => i = j
  <1> DEFINE page == worker[w].page
  <1>1. page \in Seq(Posts)
    BY DEF TypeOK, Worker
  <1> HIDE DEF page
  <1>2. DOMAIN page = 1..Len(page) /\ Len(page) \in Nat
    BY <1>1
  <1>3. \A i \in DOMAIN page : page[i] \in Posts
    BY <1>1
  <1>4. NewAt(w) \subseteq 1..Len(page)
    BY <1>2 DEF NewAt, page
  <1>5. IsFiniteSet(NewAt(w))
    <2>1. IsFiniteSet(1..Len(page))
      BY <1>2, FS_Interval
    <2> QED BY <1>4, <2>1, FS_Subset
  <1>6. NewAt(w) \in SUBSET Nat
    BY <1>2, <1>4
  <1>7. \A i \in NewAt(w) : page[i] \in Posts \ Found
    BY <1>3 DEF NewAt, page
  <1>8. \A i \in NewAt(w), j \in NewAt(w) : j < i => page[j] # page[i]
    <2> SUFFICES ASSUME NEW i \in NewAt(w), NEW j \in NewAt(w), j < i
                 PROVE  page[j] # page[i]
      OBVIOUS
    <2>1. j \in 1..(i - 1)
      BY <1>2, <1>4
    <2> QED BY <2>1 DEF NewAt, page
  <1>9. \A i \in NewAt(w), j \in NewAt(w) : page[i] = page[j] => i = j
    <2> SUFFICES ASSUME NEW i \in NewAt(w), NEW j \in NewAt(w), i # j
                 PROVE  page[i] # page[j]
      OBVIOUS
    <2>1. i < j \/ j < i
      BY <1>6
    <2> QED BY <1>8, <2>1
  <1> QED BY <1>5, <1>6, <1>7, <1>9 DEF page

\* What the loop over the page takes: the first ones of the new posts, up to
\* the limit; their ranks are gapless.
LEMMA Taken ==
    ASSUME TypeOK, row.returned <= MaxCandidates, NEW w \in Workers
    PROVE  /\ Upserts(w) \subseteq NewAt(w) /\ IsFiniteSet(Upserts(w))
           /\ Upserted(w) \in Nat
           /\ row.returned + Upserted(w) <= MaxCandidates
           /\ ~LimitReached(w) => Upserts(w) = NewAt(w)
           /\ \A i \in Upserts(w) : Rank(NewAt(w), i) \in 0..(Upserted(w) - 1)
           /\ \A n \in 0..(Upserted(w) - 1) :
                 \E i \in Upserts(w) : Rank(NewAt(w), i) = n
           /\ \A i, j \in Upserts(w) :
                 Rank(NewAt(w), i) = Rank(NewAt(w), j) => i = j
  <1> DEFINE D == NewAt(w)
             U == Upserts(w)
             room == MaxCandidates - row.returned
             k == IF Cardinality(D) <= room THEN Cardinality(D) ELSE room
             T == 0..(k - 1)
             f == [i \in U |-> Rank(D, i)]
  <1>1. D \in SUBSET Nat /\ IsFiniteSet(D)
    BY NewPlaces
  <1>2. Cardinality(D) \in Nat /\ row.returned \in Nat /\ room \in Nat
        /\ MaxCandidates \in Nat
    BY <1>1, FS_CardinalityType, BoundsAssumption DEF TypeOK, Row
  <1>3. U = {i \in D : row.returned + Rank(D, i) < MaxCandidates}
    BY DEF Upserts, OrderOf, Rank
  <1>4. U \subseteq D /\ IsFiniteSet(U)
    BY <1>1, <1>3, FS_Subset
  <1>5. \A i \in D : Rank(D, i) \in 0..(Cardinality(D) - 1)
    BY <1>1, RankType
  <1>6. \A i, j \in D : Rank(D, i) = Rank(D, j) => i = j
    <2> SUFFICES ASSUME NEW i \in D, NEW j \in D, i # j
                 PROVE  Rank(D, i) # Rank(D, j)
      OBVIOUS
    <2> HIDE DEF D
    <2>1. i < j \/ j < i
      BY <1>1
    <2>2. i < j => Rank(D, i) < Rank(D, j)
      BY <1>1, RankGrows
    <2>3. j < i => Rank(D, j) < Rank(D, i)
      BY <1>1, RankGrows
    <2> QED BY <1>2, <1>5, <2>1, <2>2, <2>3
  <1> HIDE DEF D, U
  <1>7. k \in Nat /\ k <= room /\ k <= Cardinality(D)
    BY <1>2
  <1>8. \A i \in U : Rank(D, i) \in T
    BY <1>2, <1>3, <1>5
  <1>9. \A n \in T : \E i \in U : Rank(D, i) = n
    <2> SUFFICES ASSUME NEW n \in T PROVE \E i \in U : Rank(D, i) = n
      OBVIOUS
    <2>1. n \in 0..(Cardinality(D) - 1) /\ row.returned + n < MaxCandidates
      BY <1>2, <1>7
    <2>2. PICK i \in D : Rank(D, i) = n
      BY <1>1, <2>1, RankOnto
    <2>3. i \in U
      BY <1>3, <2>1, <2>2
    <2> QED BY <2>2, <2>3
  <1>10. Cardinality(T) = k
    BY <1>7, FS_Interval
  <1> HIDE DEF T
  <1>11. f \in Injection(U, T) /\ f \in Surjection(U, T)
    BY <1>4, <1>6, <1>8, <1>9 DEF Injection, Surjection, IsInjective
  <1>12. Cardinality(U) = k
    BY <1>4, <1>10, <1>11, FS_Surjection
  <1>13. Upserted(w) = k /\ T = 0..(Upserted(w) - 1)
    BY <1>12 DEF Upserted, U, T
  <1>14. ASSUME ~LimitReached(w) PROVE U = D
    <2>1. row.returned + k < MaxCandidates
      BY <1>2, <1>7, <1>13, <1>14 DEF LimitReached
    <2>2. k = Cardinality(D)
      BY <1>2, <2>1
    <2> QED BY <1>1, <1>4, <1>12, <2>2, FS_Subset
  <1>15. row.returned + k <= MaxCandidates
    BY <1>2, <1>7
  <1> QED BY <1>4, <1>6, <1>7, <1>8, <1>9, <1>13, <1>14, <1>15 DEF D, U

\* Every post of a page that is taken whole is a candidate.
LEMMA PageSaved ==
    ASSUME TypeOK, NEW w \in Workers, Upserts(w) = NewAt(w)
    PROVE  Range(worker[w].page) \subseteq {c.post : c \in Saved(w)}
  <1> DEFINE page == worker[w].page
  <1>1. page \in Seq(Posts)
    BY DEF TypeOK, Worker
  <1> HIDE DEF page
  <1>2. DOMAIN page = 1..Len(page) /\ Len(page) \in Nat
    BY <1>1
  <1> SUFFICES ASSUME NEW i \in DOMAIN page
               PROVE  \E c \in Saved(w) : c.post = page[i]
    BY DEF Range, page
  <1>3. CASE page[i] \in Found
    BY <1>3 DEF Found, Saved
  <1>4. CASE page[i] \notin Found
    <2> DEFINE Same == {j \in DOMAIN page : page[j] = page[i]}
    <2>1. Same \subseteq Nat /\ i \in Same
      BY <1>2
    <2>2. PICK m \in Same : \A j \in Same : <<j, m>> \notin OpToRel(<, Nat)
      BY <2>1, NatLessThanWellFounded, WFMin, Zenon
    <2>3. \A j \in Same : ~(j < m)
      BY <2>1, <2>2, Zenon DEF OpToRel
    <2>4. \A j \in 1..(m - 1) : page[j] # page[m]
      <3> SUFFICES ASSUME NEW j \in 1..(m - 1), page[j] = page[m]
                   PROVE  FALSE
        OBVIOUS
      <3>1. j \in Same /\ j < m
        BY <1>2
      <3> QED BY <2>3, <3>1
    <2>5. m \in NewAt(w)
      BY <1>4, <2>4 DEF NewAt, page
    <2> DEFINE c == [post |-> page[m], order |-> OrderOf(w, m)]
    <2>6. c \in Saved(w)
      BY <2>5 DEF Saved, page
    <2> QED BY <2>6
  <1> QED BY <1>3, <1>4

\* What a page adds to the candidates keeps them counted.
LEMMA SavedCounted ==
    ASSUME TypeOK, Finite, Counted, NEW w \in Workers
    PROVE  /\ Saved(w) \subseteq [post : Posts, order : Nat]
           /\ IsFiniteSet(Saved(w))
           /\ \A c, d \in Saved(w) : c.post = d.post => c = d
           /\ {c.order : c \in Saved(w)} = 0..(row.returned + Upserted(w) - 1)
           /\ Cardinality(Saved(w)) = row.returned + Upserted(w)
  <1> DEFINE page == worker[w].page
             D == NewAt(w)
             U == Upserts(w)
             R == row.returned
             n == Upserted(w)
             New(i) == [post |-> page[i], order |-> R + Rank(D, i)]
             N == {New(i) : i \in U}
             f == [i \in U |-> New(i)]
  <1>1. R \in Nat /\ R <= MaxCandidates
    BY DEF TypeOK, Row, Counted
  <1>2. /\ U \subseteq D /\ IsFiniteSet(U) /\ n \in Nat
        /\ \A i \in U : Rank(D, i) \in 0..(n - 1)
        /\ \A k \in 0..(n - 1) : \E i \in U : Rank(D, i) = k
    BY <1>1, Taken
  <1>3. /\ \A i \in D : page[i] \in Posts \ Found
        /\ \A i, j \in D : page[i] = page[j] => i = j
    BY NewPlaces
  <1>4. Saved(w) = candidates \cup N
    BY DEF Saved, OrderOf, Rank
  <1>5. n = Cardinality(U)
    BY DEF Upserted
  <1> HIDE DEF page, D, U, R, n
  <1>6. \A i \in U : New(i) \in [post : Posts, order : Nat]
    BY <1>1, <1>2, <1>3
  <1>7. \A i, j \in U : New(i).post = New(j).post => New(i) = New(j)
    BY <1>2, <1>3
  <1>8. \A i, j \in U : New(i) = New(j) => i = j
    BY <1>2, <1>3
  <1>9. \A i \in U, c \in candidates : c.post # New(i).post
    BY <1>2, <1>3 DEF Found
  <1>10. IsFiniteSet(N) /\ Cardinality(N) = n
    <2>1. f \in Injection(U, N) /\ f \in Surjection(U, N)
      BY <1>8 DEF Injection, Surjection, IsInjective
    <2> HIDE DEF f, N
    <2> QED BY <1>2, <1>5, <2>1, FS_Surjection
  <1>11. candidates \cap N = {}
    BY <1>9
  <1>12. /\ IsFiniteSet(candidates \cup N)
         /\ Cardinality(candidates \cup N) = R + n
    <2> HIDE DEF N
    <2>1. Cardinality(candidates \cap N) = 0
      BY <1>11, FS_EmptySet
    <2>2. IsFiniteSet(candidates) /\ Cardinality(candidates) = R
      BY DEF Finite, Counted, R
    <2>3. /\ IsFiniteSet(candidates \cup N)
          /\ Cardinality(candidates \cup N)
             = Cardinality(candidates) + Cardinality(N)
               - Cardinality(candidates \cap N)
      BY <1>10, <2>2, FS_Union
    <2> QED BY <1>1, <1>2, <1>10, <2>1, <2>2, <2>3
  <1>13. candidates \cup N \subseteq [post : Posts, order : Nat]
    BY <1>6 DEF TypeOK
  <1>14. \A c, d \in candidates \cup N : c.post = d.post => c = d
    BY <1>7, <1>9 DEF Counted, OncePerPost
  <1>15. {c.order : c \in candidates \cup N} = 0..(R + n - 1)
    <2>1. {c.order : c \in candidates} = 0..(R - 1)
      BY DEF Counted, R
    <2>2. {c.order : c \in N} = {R + Rank(D, i) : i \in U}
      <3>1. \A i \in U : New(i).order = R + Rank(D, i)
        OBVIOUS
      <3> HIDE DEF New
      <3> QED BY <3>1, Zenon
    <2>3. {R + Rank(D, i) : i \in U} = R..(R + n - 1)
      <3>1. ASSUME NEW i \in U PROVE R + Rank(D, i) \in R..(R + n - 1)
        BY <1>1, <1>2
      <3>2. ASSUME NEW k \in R..(R + n - 1)
            PROVE  \E i \in U : R + Rank(D, i) = k
        <4>1. k - R \in 0..(n - 1)
          BY <1>1, <1>2
        <4>2. PICK i \in U : Rank(D, i) = k - R
          BY <1>2, <4>1
        <4> QED BY <1>1, <4>1, <4>2
      <3> QED BY <3>1, <3>2
    <2>4. 0..(R - 1) \cup R..(R + n - 1) = 0..(R + n - 1)
      BY <1>1, <1>2
    <2>5. {c.order : c \in candidates \cup N}
          = {c.order : c \in candidates} \cup {c.order : c \in N}
      OBVIOUS
    <2> QED BY <2>1, <2>2, <2>3, <2>4, <2>5
  <1> QED BY <1>4, <1>12, <1>13, <1>14, <1>15 DEF R, n

-----------------------------------------------------------------------------
(* types *)

LEMMA Numbers ==
    /\ NoCursor \in Cursor /\ Posts \subseteq Nat /\ NoCursor \notin Posts
    /\ MaxCandidates \in Nat /\ MaxClaims \in Nat /\ MaxFaults \in Nat
  BY PostsAssumption, BoundsAssumption DEF Cursor, NoCursor

LEMMA NextCursorType ==
    ASSUME TypeOK, NEW w \in Workers PROVE NextCursor(w) \in Cursor
  <1> DEFINE page == worker[w].page
  <1>1. page \in Seq(Posts)
    BY DEF TypeOK, Worker
  <1>2. CASE page = <<>>
    BY <1>2, Numbers DEF NextCursor
  <1>3. CASE page # <<>>
    <2> HIDE DEF page
    <2>1. Len(page) \in DOMAIN page
      BY <1>1, <1>3
    <2>2. page[Len(page)] \in Posts
      BY <1>1, <2>1
    <2> QED BY <1>3, <2>2 DEF NextCursor, Last, Cursor, page
  <1> QED BY <1>2, <1>3

\* The transaction of a page.
CommitSucceeds(w) ==
    /\ At(w, "commit") /\ HoldsUncanceled(w)
    /\ LimitReached(w) \/ ~Checkpointed(worker[w].cursor)
    /\ row' = Committed(w)
    /\ candidates' = Saved(w)
    /\ pages' = Checkpoint(w)
    /\ IF Terminal(w) THEN Stop(w) ELSE Go(w, "limits")
    /\ UNCHANGED <<caller, faults>>
CommitFails(w) ==
    /\ At(w, "commit")
    /\ Stop(w) \/ \E f \in Failure : Fail(w, f)
    /\ UNCHANGED <<row, candidates, pages, caller, faults>>

LEMMA CommitCases ==
    ASSUME NEW w \in Workers, CommitPage(w)
    PROVE  CommitSucceeds(w) \/ CommitFails(w)
  BY DEF CommitPage, CommitSucceeds, CommitFails, Failure

LEMMA CommittedType ==
    ASSUME TypeOK, Finite, Counted, NEW w \in Workers
    PROVE  Committed(w) \in Row
  <1> DEFINE n == Upserted(w)
             c == NextCursor(w)
             d == worker[w].cursor
  <1>1. n \in Nat
    BY Taken DEF Counted
  <1>2. c \in Cursor /\ d \in Cursor
    BY NextCursorType DEF TypeOK, Worker
  <1>3. row \in Row
    BY DEF TypeOK
  <1> HIDE DEF n, c, d
  <1>4. Committed(w) = [row EXCEPT
            !.returned = row.returned + n,
            !.current = IF LimitReached(w) THEN row.current ELSE c,
            !.count = IF LimitReached(w) THEN row.count ELSE row.count + 1,
            !.request = IF c # NoCursor THEN c ELSE d,
            !.fresh = TRUE,
            !.status = IF Terminal(w) THEN "completed" ELSE row.status,
            !.reason = IF LimitReached(w) THEN "candidate_limit"
                       ELSE IF Terminal(w) THEN "source_exhausted"
                       ELSE row.reason,
            !.owner = IF Terminal(w) THEN 0 ELSE row.owner]
    BY DEF Committed, n, c, d
  <1> DEFINE L == LimitReached(w)
             E == Terminal(w)
  <1> HIDE DEF L, E
  <1>5. /\ (IF L THEN row.current ELSE c) \in Cursor
        /\ (IF L THEN row.count ELSE row.count + 1) \in Nat
        /\ (IF c # NoCursor THEN c ELSE d) \in Cursor
        /\ (IF E THEN "completed" ELSE row.status) \in Status
        /\ (IF L THEN "candidate_limit" ELSE IF E THEN "source_exhausted"
            ELSE row.reason) \in Reason
        /\ (IF E THEN 0 ELSE row.owner) \in Nat
        /\ row.returned + n \in Nat
    BY <1>1, <1>2, <1>3 DEF Row, Status, Ended, Reason
  <1> QED BY ZenonT(60), <1>3, <1>4, <1>5 DEF Row, L, E

LEMMA CheckpointType ==
    ASSUME TypeOK, NEW w \in Workers
    PROVE  Checkpoint(w) \subseteq
               [request : Cursor, next : Cursor, posts : SUBSET Posts]
  <1> DEFINE page == worker[w].page
  <1>1. page \in Seq(Posts) /\ worker[w].cursor \in Cursor
    BY DEF TypeOK, Worker
  <1>2. Range(page) \subseteq Posts
    <2> HIDE DEF page
    <2> QED BY <1>1 DEF Range
  <1>3. NextCursor(w) \in Cursor
    BY NextCursorType
  <1> HIDE DEF page
  <1> QED BY <1>1, <1>2, <1>3 DEF Checkpoint, TypeOK, page

\* What one step makes of a thread.
LEMMA WorkerOf ==
    ASSUME TypeOK, NEW w \in Workers, NEW s \in Worker,
           worker' = [worker EXCEPT ![w] = s]
    PROVE  worker' \in [Workers -> Worker]
  BY DEF TypeOK

LEMMA GoType ==
    ASSUME TypeOK, NEW w \in Workers
    PROVE  /\ \A l \in Label : Go(w, l) => worker' \in [Workers -> Worker]
           /\ \A f \in Failure : Fail(w, f) => worker' \in [Workers -> Worker]
           /\ Stop(w) => worker' \in [Workers -> Worker]
  <1>1. worker[w] \in Worker
    BY DEF TypeOK
  <1>2. ASSUME NEW l \in Label, Go(w, l) PROVE worker' \in [Workers -> Worker]
    <2> DEFINE s == [worker[w] EXCEPT !.pc = l]
    <2>1. s \in Worker
      BY <1>1 DEF Worker
    <2>2. worker' = [worker EXCEPT ![w] = s]
      BY <1>2 DEF Go
    <2> QED BY <2>1, <2>2, WorkerOf
  <1>3. ASSUME NEW f \in Failure, Fail(w, f)
        PROVE  worker' \in [Workers -> Worker]
    <2> DEFINE s == [worker[w] EXCEPT !.pc = "finish", !.failure = f]
    <2>1. s \in Worker
      BY <1>1 DEF Worker, Label
    <2>2. worker' = [worker EXCEPT ![w] = s]
      BY <1>3 DEF Fail
    <2> QED BY <2>1, <2>2, WorkerOf
  <1>4. IdleWorker \in Worker
    <2>1. <<>> \in Seq(Posts)
      OBVIOUS
    <2> QED BY <2>1, Numbers DEF IdleWorker, Worker, Label, Failure
  <1>5. Stop(w) => worker' \in [Workers -> Worker]
    BY <1>4, WorkerOf DEF Stop
  <1> QED BY <1>2, <1>3, <1>5

LEMMA TypeStep == ASSUME TypeOK, Finite, Counted, Next PROVE TypeOK'
  <1> USE Numbers
  <1>t. /\ row \in Row /\ candidates \subseteq [post : Posts, order : Nat]
        /\ pages \subseteq [request : Cursor, next : Cursor,
                            posts : SUBSET Posts]
        /\ worker \in [Workers -> Worker]
        /\ caller \in [Callers -> Status \cup {"none"}]
        /\ faults \in 0..MaxFaults
    BY DEF TypeOK
  <1>i. IdleWorker \in Worker
    <2>1. <<>> \in Seq(Posts)
      OBVIOUS
    <2> QED BY <2>1 DEF IdleWorker, Worker, Label, Failure
  <1>1. ASSUME NEW w \in Workers, ClaimSearch(w) PROVE TypeOK'
    <2> DEFINE g == row.gen + 1
               r == [row EXCEPT !.status = "running", !.owner = g, !.gen = g,
                                !.fresh = TRUE]
               s == [IdleWorker EXCEPT !.pc = "resume", !.claim = g]
    <2>g. g \in Nat
      BY <1>t DEF Row
    <2> HIDE DEF g
    <2>1. r \in Row
      BY <1>t, <2>g DEF Row, Status
    <2>2. s \in Worker
      BY <1>i, <2>g DEF Worker, Label
    <2>3. row' = r /\ worker' = [worker EXCEPT ![w] = s]
      BY <1>1, <1>t DEF ClaimSearch, g, Row
    <2>4. worker' \in [Workers -> Worker]
      BY <2>2, <2>3, WorkerOf
    <2> QED BY <1>1, <1>t, <2>1, <2>3, <2>4 DEF ClaimSearch, TypeOK
  <1>2. ASSUME NEW w \in Workers, ResumeCursor(w) PROVE TypeOK'
    <2> DEFINE c == IF row.owner # worker[w].claim THEN NoCursor
                    ELSE IF row.request # NoCursor THEN row.request
                    ELSE row.current
               s == [worker[w] EXCEPT !.pc = "check", !.cursor = c]
    <2>1. c \in Cursor
      BY <1>t DEF Row
    <2> HIDE DEF c
    <2>2. s \in Worker
      BY <1>t, <2>1 DEF Worker, Label
    <2>3. worker' = [worker EXCEPT ![w] = s]
      BY <1>2 DEF ResumeCursor, c
    <2>4. worker' \in [Workers -> Worker]
      BY <2>2, <2>3, WorkerOf
    <2> QED BY <1>2, <1>t, <2>4 DEF ResumeCursor, TypeOK
  <1>3. ASSUME NEW w \in Workers, CheckSearch(w) PROVE TypeOK'
    <2>1. worker' \in [Workers -> Worker]
      BY <1>3, GoType DEF CheckSearch, Label, Failure
    <2> QED BY <1>3, <1>t, <2>1 DEF CheckSearch, TypeOK
  <1>4. ASSUME NEW w \in Workers, PreparePage(w) PROVE TypeOK'
    <2> DEFINE r == [row EXCEPT !.request = worker[w].cursor, !.fresh = TRUE]
    <2>1. r \in Row
      BY <1>t DEF Row, Worker
    <2>2. row' \in Row
      BY <1>4, <1>t, <2>1 DEF PreparePage
    <2>3. worker' \in [Workers -> Worker]
      BY <1>4, GoType DEF PreparePage, Label
    <2> QED BY <1>4, <1>t, <2>2, <2>3 DEF PreparePage, TypeOK
  <1>5. ASSUME NEW w \in Workers, FetchPage(w) PROVE TypeOK'
    <2>1. PICK p \in Source[worker[w].cursor] :
              worker' = [worker EXCEPT ![w].pc = "record", ![w].page = p]
      BY <1>5 DEF FetchPage
    <2>2. worker[w].cursor \in Cursor
      BY <1>t DEF Worker
    <2>3. p \in Seq(Posts)
      BY <2>2, SourceAssumption
    <2> DEFINE s == [worker[w] EXCEPT !.pc = "record", !.page = p]
    <2>4. s \in Worker
      BY <1>t, <2>3 DEF Worker, Label
    <2>5. worker' = [worker EXCEPT ![w] = s]
      BY <2>1
    <2>6. worker' \in [Workers -> Worker]
      BY <2>4, <2>5, WorkerOf
    <2> QED BY <1>5, <1>t, <2>6 DEF FetchPage, TypeOK
  <1>6. ASSUME NEW w \in Workers, FetchFails(w) PROVE TypeOK'
    <2>1. worker' \in [Workers -> Worker]
      BY <1>6, GoType DEF FetchFails, Failure
    <2> QED BY <1>6, <1>t, <2>1 DEF FetchFails, TypeOK
  <1>7. ASSUME NEW w \in Workers, RecordApiRequest(w) PROVE TypeOK'
    <2> DEFINE n == row.requests + 1
               r == [row EXCEPT !.requests = n, !.fresh = TRUE]
    <2>n. n \in Nat
      BY <1>t DEF Row
    <2> HIDE DEF n
    <2>1. r \in Row
      BY <1>t, <2>n DEF Row
    <2>2. row' \in Row
      BY <1>7, <1>t, <2>1 DEF RecordApiRequest, n
    <2>3. worker' \in [Workers -> Worker]
      BY <1>7, GoType DEF RecordApiRequest, Label
    <2> QED BY <1>7, <1>t, <2>2, <2>3 DEF RecordApiRequest, TypeOK
  <1>8. ASSUME NEW w \in Workers, CommitPage(w) PROVE TypeOK'
    <2>1. worker' \in [Workers -> Worker]
      BY <1>8, GoType DEF CommitPage, Label, Failure
    <2>2. row' \in Row
      BY <1>8, <1>t, CommittedType DEF CommitPage
    <2>3. candidates' \subseteq [post : Posts, order : Nat]
      BY <1>8, <1>t, SavedCounted DEF CommitPage
    <2>4. pages' \subseteq [request : Cursor, next : Cursor,
                            posts : SUBSET Posts]
      BY <1>8, <1>t, CheckpointType DEF CommitPage
    <2> QED BY <1>8, <1>t, <2>1, <2>2, <2>3, <2>4 DEF CommitPage, TypeOK
  <1>9. ASSUME NEW w \in Workers, CheckLimits(w) PROVE TypeOK'
    <2> DEFINE s == [worker[w] EXCEPT !.pc = "check", !.page = <<>>,
                                      !.cursor = NextCursor(w)]
    <2>1. s \in Worker
      <3>1. <<>> \in Seq(Posts)
        OBVIOUS
      <3> QED BY <1>t, <3>1, NextCursorType DEF Worker, Label
    <2>2. \/ Fail(w, "request_limit")
          \/ worker' = [worker EXCEPT ![w] = s]
      BY <1>9 DEF CheckLimits
    <2>3. worker' \in [Workers -> Worker]
      BY <2>1, <2>2, GoType, WorkerOf DEF Failure
    <2> QED BY <1>9, <1>t, <2>3 DEF CheckLimits, TypeOK
  <1>10. ASSUME NEW w \in Workers, FinishSearch(w) PROVE TypeOK'
    <2> DEFINE r == [row EXCEPT !.status = FinalStatus(w), !.owner = 0,
                                !.fresh = TRUE]
    <2>1. FinalStatus(w) \in Status
      BY DEF FinalStatus, Status, Ended
    <2>2. r \in Row
      BY <1>t, <2>1 DEF Row
    <2>3. row' \in Row
      BY <1>10, <1>t, <2>2 DEF FinishSearch
    <2>4. worker' \in [Workers -> Worker]
      BY <1>10, GoType DEF FinishSearch
    <2> QED BY <1>10, <1>t, <2>3, <2>4 DEF FinishSearch, TypeOK
  <1>11. ASSUME NEW w \in Workers, Raise(w) PROVE TypeOK'
    <2>1. worker' \in [Workers -> Worker]
      BY <1>11, GoType DEF Raise, Failure
    <2>2. faults' \in 0..MaxFaults
      BY <1>11, <1>t DEF Raise, Fault
    <2> QED BY <1>11, <1>t, <2>1, <2>2 DEF Raise, TypeOK
  <1>12. ASSUME NEW c \in Callers, CancelSearch(c) PROVE TypeOK'
    BY <1>12, <1>t DEF CancelSearch, TypeOK, Row
  <1>13. ASSUME NEW c \in Callers, CancelSearchWrite(c) PROVE TypeOK'
    <2> DEFINE n == IF caller[c] \in {"queued", "stale"} THEN "canceled"
                    ELSE row.status
               r == [row EXCEPT !.cancel = TRUE, !.status = n]
    <2>1. n \in Status
      BY <1>t DEF Row, Status, Ended
    <2> HIDE DEF n
    <2>2. r \in Row
      BY <1>t, <2>1 DEF Row
    <2>3. row' = r
      BY <1>13 DEF CancelSearchWrite, n
    <2> QED BY <1>13, <1>t, <2>2, <2>3 DEF CancelSearchWrite, TypeOK
  <1>14. ASSUME GetSearch PROVE TypeOK'
    BY <1>14, <1>t DEF GetSearch, TypeOK, Row, Status
  <1>15. ASSUME Lapse PROVE TypeOK'
    BY <1>15, <1>t DEF Lapse, TypeOK, Row
  <1>16. ASSUME Crash PROVE TypeOK'
    BY <1>16, <1>i, <1>t DEF Crash, Fault, TypeOK
  <1> QED BY <1>1, <1>2, <1>3, <1>4, <1>5, <1>6, <1>7, <1>8, <1>9, <1>10,
             <1>11, <1>12, <1>13, <1>14, <1>15, <1>16 DEF Next, Run

-----------------------------------------------------------------------------
(* the pages *)

\* What the steps do to the row that commit no page.
Calm ==
    /\ UNCHANGED <<candidates, pages>>
    /\ row'.returned = row.returned /\ row'.count = row.count
    /\ row'.current = row.current
    /\ row'.status = "completed" =>
          row.status = "completed" /\ row'.reason = row.reason
    /\ row'.request = row.request \/ Reached(row'.request)
    /\ row'.status \in {"queued", "running", "stale"} \/ row'.owner # 0 =>
          row.status \in {"queued", "running", "stale"} \/ row.owner # 0

LEMMA CalmStep ==
    ASSUME TypeOK, Next, \A w \in Workers : Working(w)
    PROVE  Calm \/ \E w \in Workers : CommitSucceeds(w)
  <1>t. row \in Row
    BY DEF TypeOK
  <1>1. ASSUME NEW w \in Workers, ClaimSearch(w) PROVE Calm
    BY <1>1, <1>t DEF ClaimSearch, Calm, Row
  <1>2. ASSUME NEW w \in Workers,
               \/ ResumeCursor(w) \/ CheckSearch(w) \/ FetchPage(w)
               \/ FetchFails(w) \/ CheckLimits(w) \/ Raise(w)
        PROVE  Calm
    BY <1>2 DEF ResumeCursor, CheckSearch, FetchPage, FetchFails, CheckLimits,
       Raise, Calm
  <1>3. ASSUME NEW w \in Workers, PreparePage(w) PROVE Calm
    <2>1. Reached(worker[w].cursor)
      BY DEF Working
    <2> QED BY <1>3, <1>t, <2>1 DEF PreparePage, Calm, Row
  <1>4. ASSUME NEW w \in Workers, RecordApiRequest(w) PROVE Calm
    BY <1>4, <1>t DEF RecordApiRequest, Calm, Row
  <1>5. ASSUME NEW w \in Workers, FinishSearch(w) PROVE Calm
    <2>1. FinalStatus(w) \in {"canceled", "partially_failed", "failed"}
      BY DEF FinalStatus
    <2> QED BY <1>5, <1>t, <2>1 DEF FinishSearch, Calm, Row
  <1>6. ASSUME NEW w \in Workers, CommitPage(w)
        PROVE  Calm \/ CommitSucceeds(w)
    BY <1>6, CommitCases DEF CommitFails, Calm
  <1>7. ASSUME NEW c \in Callers, CancelSearch(c) PROVE Calm
    BY <1>7 DEF CancelSearch, Calm
  <1>8. ASSUME NEW c \in Callers, CancelSearchWrite(c) PROVE Calm
    BY <1>8, <1>t DEF CancelSearchWrite, Calm, Row
  <1>9. ASSUME GetSearch \/ Lapse \/ Crash PROVE Calm
    BY <1>9, <1>t DEF GetSearch, Lapse, Crash, Calm, Row
  <1> QED BY <1>1, <1>2, <1>3, <1>4, <1>5, <1>6, <1>7, <1>8, <1>9
          DEF Next, Run

\* What has been reached stays reached.
LEMMA ReachedStays ==
    ASSUME NEW c, Reached(c), pages \subseteq pages'
    PROVE  c # NoCursor => \E k \in pages' : k.next = c
  BY DEF Reached

\* The invariant of the row, the candidates and the pages.
Chain ==
    Finite /\ Counted /\ RequestReached /\ PagesChained /\ CompletedIsWhole

LEMMA CalmKeeps == ASSUME Chain, Calm PROVE Chain'
  <1>1. Finite' /\ PagesChained'
    BY DEF Chain, Calm, Finite, PagesChained, Found
  <1>2. Counted'
    BY DEF Chain, Calm, Counted, OncePerPost
  <1>3. RequestReached' /\ CompletedIsWhole'
    BY DEF Chain, Calm, RequestReached, CompletedIsWhole, Reached
  <1> QED BY <1>1, <1>2, <1>3 DEF Chain

\* A new page carries on from one that is there.
LEMMA CommitKeeps ==
    ASSUME TypeOK, Chain, NEW w \in Workers, Working(w), CommitSucceeds(w)
    PROVE  Chain'
  <1> DEFINE cursor == worker[w].cursor
             next == NextCursor(w)
             n == Upserted(w)
             k == [request |-> cursor, next |-> next,
                   posts |-> Range(worker[w].page)]
             L == LimitReached(w)
             E == Terminal(w)
             S == Saved(w)
  <1>1. row \in Row /\ row.returned \in Nat /\ row.returned <= MaxCandidates
    BY DEF TypeOK, Row, Chain, Counted
  <1>2. /\ row'.returned = row.returned + n
        /\ row'.current = IF L THEN row.current ELSE next
        /\ row'.count = IF L THEN row.count ELSE row.count + 1
        /\ row'.request = IF next # NoCursor THEN next ELSE cursor
        /\ row'.status = IF E THEN "completed" ELSE "running"
        /\ E => row'.reason = IF L THEN "candidate_limit"
                              ELSE "source_exhausted"
        /\ E => row'.owner = 0
    BY <1>1 DEF CommitSucceeds, Committed, HoldsUncanceled, Holds, Row
  <1>3. candidates' = S /\ pages' = IF L THEN pages ELSE pages \cup {k}
    BY DEF CommitSucceeds, Checkpoint
  <1>4. ~L => \A j \in pages : j.request # cursor
    BY DEF CommitSucceeds, Checkpointed
  <1>5. /\ n \in Nat /\ row.returned + n <= MaxCandidates
        /\ ~L => Upserts(w) = NewAt(w)
    BY <1>1, Taken
  <1>6. L <=> row.returned + n >= MaxCandidates
    BY DEF LimitReached
  <1>7. E <=> L \/ next = NoCursor
    BY DEF Terminal
  <1>8. Reached(cursor)
    BY DEF Working
  <1>9. ~L => Range(worker[w].page) \subseteq {c.post : c \in S}
    BY <1>5, PageSaved
  <1>10. /\ IsFiniteSet(S)
         /\ \A c, d \in S : c.post = d.post => c = d
         /\ {c.order : c \in S} = 0..(row.returned + n - 1)
         /\ Cardinality(S) = row.returned + n
    BY SavedCounted DEF Chain
  <1>11. candidates \subseteq S
    BY DEF Saved
  <1> HIDE DEF cursor, next, n, L, E, S
  <1>12. Finite'
    <2>1. IsFiniteSet(pages \cup {k})
      BY FS_AddElement DEF Chain, Finite
    <2> QED BY <1>3, <1>10, <2>1 DEF Chain, Finite
  <1>13. Counted'
    <2>1. candidates' = S /\ row'.returned = row.returned + n
      BY <1>2, <1>3
    <2>2. OncePerPost'
      BY <1>10, <2>1 DEF OncePerPost
    <2>3. {c.order : c \in candidates'} = 0..(row'.returned - 1)
      <3>1. {c.order : c \in candidates'} = {c.order : c \in S}
        BY <2>1, Zenon
      <3>2. row'.returned - 1 = row.returned + n - 1
        BY <1>1, <1>5, <2>1
      <3> QED BY <1>10, <3>1, <3>2, Zenon
    <2>4. /\ Cardinality(candidates') = row'.returned
          /\ row'.returned <= MaxCandidates
      BY <1>5, <1>10, <2>1
    <2> QED BY <2>2, <2>3, <2>4 DEF Counted
  <1>14. RequestReached'
    <2>1. CASE E
      BY <1>2, <2>1 DEF RequestReached
    <2>2. CASE ~E
      <3>1. row'.request = next /\ k \in pages' /\ k.next = next
        BY <1>2, <1>3, <1>7, <2>2
      <3> QED BY <3>1 DEF RequestReached, Reached
    <2> QED BY <2>1, <2>2
  <1>15. PagesChained'
    <2>1. CASE L
      <3>1. Found \subseteq Found'
        BY <1>3, <1>11 DEF Found
      <3> QED BY <1>2, <1>3, <2>1, <3>1 DEF Chain, PagesChained
    <2>2. CASE ~L
      <3>1. pages' = pages \cup {k} /\ k \notin pages
        BY <1>3, <1>4, <2>2
      <3>2. Cardinality(pages') = row'.count
        <4>1. Cardinality(pages \cup {k}) = Cardinality(pages) + 1
          BY <3>1, FS_AddElement DEF Chain, Finite
        <4> QED BY <1>2, <2>2, <3>1, <4>1 DEF Chain, PagesChained
      <3>3. Found \subseteq Found' /\ k.posts \subseteq Found'
        BY <1>3, <1>9, <1>11, <2>2 DEF Found
      <3>4. ASSUME NEW j \in pages'
            PROVE  /\ j.request # NoCursor =>
                         \E i \in pages' : i.next = j.request
                   /\ j.posts \subseteq Found'
                   /\ \A i \in pages' : i.request = j.request => i = j
        <4>1. CASE j = k
          BY <1>4, <1>8, <2>2, <3>1, <3>3, <4>1 DEF Reached
        <4>2. CASE j \in pages
          BY <1>4, <2>2, <3>1, <3>3, <4>2 DEF Chain, PagesChained
        <4> QED BY <3>1, <4>1, <4>2
      <3>5. row'.current # NoCursor => \E i \in pages' : i.next = row'.current
        BY <1>2, <2>2, <3>1
      <3> QED BY <3>2, <3>4, <3>5 DEF PagesChained
    <2> QED BY <2>1, <2>2
  <1>16. CompletedIsWhole'
    <2>1. CASE L
      BY <1>1, <1>2, <1>5, <1>6, <2>1, Numbers DEF CompletedIsWhole
    <2>2. CASE ~L /\ E
      <3>1. k \in pages' /\ k.next = NoCursor
        BY <1>3, <1>7, <2>2
      <3> QED BY <1>2, <2>2, <3>1 DEF CompletedIsWhole
    <2>3. CASE ~E
      BY <1>2, <2>3 DEF CompletedIsWhole
    <2> QED BY <2>1, <2>2, <2>3
  <1> QED BY <1>12, <1>13, <1>14, <1>15, <1>16 DEF Chain

-----------------------------------------------------------------------------
(* the workers *)

\* Another's step, or one that leaves cursor and page as they are.
LEMMA SameWorking ==
    ASSUME NEW v \in Workers, Working(v), pages \subseteq pages',
           worker'[v] = worker[v]
    PROVE  Working(v)'
  BY DEF Working, Reached, At, NextCursor

LEMMA MovedWorking ==
    ASSUME TypeOK, NEW w \in Workers, Working(w), pages \subseteq pages',
           ~At(w, "idle"),
           \/ \E l \in Label \ {"limits"} : Go(w, l)
           \/ \E f \in Failure : Fail(w, f)
           \/ Stop(w)
    PROVE  Working(w)'
  <1>1. CASE Stop(w)
    BY <1>1 DEF Stop, TypeOK, IdleWorker, Working, At, Reached
  <1>2. CASE \/ \E l \in Label \ {"limits"} : Go(w, l)
             \/ \E f \in Failure : Fail(w, f)
    <2>1. /\ worker'[w].pc # "limits" /\ worker'[w].cursor = worker[w].cursor
          /\ worker'[w].claim = worker[w].claim
      BY <1>2 DEF Go, Fail, TypeOK, Worker
    <2> QED BY <2>1 DEF Working, Reached, At
  <1> QED BY <1>1, <1>2

LEMMA WorkingStep ==
    ASSUME TypeOK, Chain, Next, \A w \in Workers : Working(w),
           NEW v \in Workers
    PROVE  Working(v)'
  <1>t. row \in Row /\ worker \in [Workers -> Worker]
    BY DEF TypeOK
  <1>p. pages \subseteq pages'
    <2>1. Calm => pages \subseteq pages'
      BY DEF Calm
    <2>2. ASSUME NEW w \in Workers, CommitSucceeds(w)
          PROVE  pages \subseteq pages'
      BY <2>2 DEF CommitSucceeds, Checkpoint
    <2> QED BY <2>1, <2>2, CalmStep
  <1>1. ASSUME NEW w \in Workers, ClaimSearch(w) PROVE Working(v)'
    <2>1. CASE v = w
      <3>1. /\ worker'[v].pc = "resume" /\ worker'[v].claim = row.gen + 1
            /\ worker'[v].cursor = NoCursor
        BY <1>1, <1>t, <2>1 DEF ClaimSearch, IdleWorker, Row
      <3> QED BY <1>t, <3>1 DEF Working, At, Reached, Row
    <2>2. CASE v # w
      BY <1>1, <1>p, <1>t, <2>2, SameWorking DEF ClaimSearch
    <2> QED BY <2>1, <2>2
  <1>2. ASSUME NEW w \in Workers, ResumeCursor(w) PROVE Working(v)'
    <2>1. CASE v = w
      <3>1. /\ worker'[v].pc = "check" /\ worker'[v].claim = worker[v].claim
            /\ worker'[v].cursor =
                  IF row.owner # worker[v].claim THEN NoCursor
                  ELSE IF row.request # NoCursor THEN row.request
                  ELSE row.current
        BY <1>2, <1>t, <2>1 DEF ResumeCursor, Worker
      <3>2. worker[v].claim # 0
        BY <1>2, <2>1 DEF ResumeCursor, Working, At
      <3>3. row.owner # 0 => Reached(row.request)
        BY DEF Chain, RequestReached
      <3>4. Reached(row.current)
        BY DEF Chain, PagesChained, Reached
      <3>5. pages' = pages
        BY <1>2 DEF ResumeCursor
      <3> QED BY <3>1, <3>2, <3>3, <3>4, <3>5 DEF Working, At, Reached
    <2>2. CASE v # w
      BY <1>2, <1>p, <1>t, <2>2, SameWorking DEF ResumeCursor
    <2> QED BY <2>1, <2>2
  <1>3. ASSUME NEW w \in Workers, FetchPage(w) PROVE Working(v)'
    <2>1. CASE v = w
      <3>1. /\ worker'[v].pc = "record" /\ worker'[v].claim = worker[v].claim
            /\ worker'[v].cursor = worker[v].cursor
        BY <1>3, <1>t, <2>1 DEF FetchPage, Worker
      <3>2. worker[v].claim # 0 /\ Reached(worker[v].cursor)
        BY <1>3, <2>1 DEF FetchPage, Working, At
      <3> QED BY <1>p, <3>1, <3>2 DEF Working, At, Reached
    <2>2. CASE v # w
      BY <1>3, <1>p, <1>t, <2>2, SameWorking DEF FetchPage
    <2> QED BY <2>1, <2>2
  <1>4. ASSUME NEW w \in Workers,
               \/ CheckSearch(w) \/ PreparePage(w) \/ FetchFails(w)
               \/ RecordApiRequest(w) \/ CommitFails(w) \/ FinishSearch(w)
               \/ Raise(w)
        PROVE  Working(v)'
    <2>1. /\ ~At(w, "idle")
          /\ \/ \E l \in Label \ {"limits"} : Go(w, l)
             \/ \E f \in Failure : Fail(w, f)
             \/ Stop(w)
      BY <1>4 DEF CheckSearch, PreparePage, FetchFails, RecordApiRequest,
         CommitFails, FinishSearch, Raise, At, Label, Failure
    <2>2. CASE v = w
      BY <1>p, <2>1, <2>2, MovedWorking
    <2>3. CASE v # w
      BY <1>p, <1>t, <2>1, <2>3, SameWorking DEF Go, Fail, Stop
    <2> QED BY <2>2, <2>3
  <1>5. ASSUME NEW w \in Workers, CommitSucceeds(w) PROVE Working(v)'
    <2>1. CASE v # w
      BY <1>5, <1>p, <1>t, <2>1, SameWorking DEF CommitSucceeds, Go, Stop
    <2>2. CASE v = w /\ Terminal(w)
      <3>1. Stop(w) /\ ~At(w, "idle")
        BY <1>5, <2>2 DEF CommitSucceeds, At
      <3> QED BY <1>p, <2>2, <3>1, MovedWorking
    <2>3. CASE v = w /\ ~Terminal(w)
      <3>1. /\ worker'[v].cursor = worker[v].cursor
            /\ worker'[v].page = worker[v].page
            /\ worker'[v].claim = worker[v].claim
        BY <1>5, <1>t, <2>3 DEF CommitSucceeds, Go, Worker
      <3>2. worker[v].claim # 0 /\ Reached(worker[v].cursor)
        BY <1>5, <2>3 DEF CommitSucceeds, Working, At
      <3>3. Reached(NextCursor(v))'
        <4> DEFINE k == [request |-> worker[v].cursor, next |-> NextCursor(v),
                         posts |-> Range(worker[v].page)]
        <4>1. k \in pages' /\ k.next = NextCursor(v)
          BY <1>5, <2>3 DEF CommitSucceeds, Checkpoint, Terminal
        <4>2. NextCursor(v)' = NextCursor(v)
          BY <3>1 DEF NextCursor
        <4> QED BY <4>1, <4>2 DEF Reached
      <3> QED BY <1>p, <3>1, <3>2, <3>3 DEF Working, At, Reached
    <2> QED BY <2>1, <2>2, <2>3
  <1>6. ASSUME NEW w \in Workers, CommitPage(w) PROVE Working(v)'
    BY <1>4, <1>5, <1>6, CommitCases
  <1>7. ASSUME NEW w \in Workers, CheckLimits(w) PROVE Working(v)'
    <2>1. CASE Fail(w, "request_limit")
      <3>1. CASE v = w
        BY <1>7, <1>p, <2>1, <3>1, MovedWorking DEF CheckLimits, At, Failure
      <3>2. CASE v # w
        BY <1>p, <1>t, <2>1, <3>2, SameWorking DEF Fail
      <3> QED BY <3>1, <3>2
    <2>2. CASE worker' = [worker EXCEPT ![w].pc = "check", ![w].page = <<>>,
                                        ![w].cursor = NextCursor(w)]
      <3>1. CASE v = w
        <4>1. /\ worker'[v].pc = "check" /\ worker'[v].claim = worker[v].claim
              /\ worker'[v].cursor = NextCursor(v)
          BY <1>t, <2>2, <3>1 DEF Worker
        <4>2. worker[v].claim # 0 /\ Reached(NextCursor(v))
          BY <1>7, <3>1 DEF CheckLimits, Working, At
        <4> QED BY <1>p, <4>1, <4>2 DEF Working, At, Reached
      <3>2. CASE v # w
        BY <1>p, <1>t, <2>2, <3>2, SameWorking
      <3> QED BY <3>1, <3>2
    <2> QED BY <1>7, <2>1, <2>2 DEF CheckLimits
  <1>8. ASSUME NEW c \in Callers, CancelSearch(c) \/ CancelSearchWrite(c)
        PROVE  Working(v)'
    BY <1>8, <1>p, SameWorking DEF CancelSearch, CancelSearchWrite
  <1>9. ASSUME GetSearch \/ Lapse PROVE Working(v)'
    BY <1>9, <1>p, SameWorking DEF GetSearch, Lapse
  <1>10. ASSUME Crash PROVE Working(v)'
    BY <1>10 DEF Crash, IdleWorker, Working, At, Reached
  <1> QED BY <1>1, <1>2, <1>3, <1>4, <1>6, <1>7, <1>8, <1>9, <1>10
          DEF Next, Run

-----------------------------------------------------------------------------
(* theorems *)

LEMMA InitIInv == ASSUME Init PROVE IInv
  <1> USE Numbers
  <1>1. TypeOK
    <2>1. row \in Row
      BY DEF Init, Row, Status, Reason
    <2>2. <<>> \in Seq(Posts)
      OBVIOUS
    <2>3. IdleWorker \in Worker
      BY <2>2 DEF IdleWorker, Worker, Label, Failure
    <2> QED BY <2>1, <2>3 DEF Init, TypeOK
  <1>2. Finite /\ Cardinality(candidates) = 0 /\ Cardinality(pages) = 0
    BY FS_EmptySet DEF Init, Finite
  <1>3. Counted
    <2>1. row.returned = 0 /\ candidates = {}
      BY DEF Init
    <2>2. {c.order : c \in candidates} = 0..(row.returned - 1)
      BY <2>1
    <2> QED BY <1>2, <2>1, <2>2 DEF Counted, OncePerPost
  <1>4. RequestReached /\ \A w \in Workers : Working(w)
    BY DEF Init, RequestReached, Working, Reached, At, IdleWorker
  <1>5. PagesChained /\ CompletedIsWhole
    BY <1>2 DEF Init, PagesChained, CompletedIsWhole
  <1> QED BY <1>1, <1>2, <1>3, <1>4, <1>5 DEF IInv

LEMMA Inductive == IInv /\ [Next]_vars => IInv'
  <1>1. ASSUME IInv, Next PROVE IInv'
    <2>1. TypeOK /\ Chain /\ \A w \in Workers : Working(w)
      BY <1>1 DEF IInv, Chain
    <2>2. TypeOK'
      BY <1>1, <2>1, TypeStep DEF Chain
    <2>3. Chain'
      BY <1>1, <2>1, CalmStep, CalmKeeps, CommitKeeps
    <2>4. \A w \in Workers : Working(w)'
      BY <1>1, <2>1, WorkingStep
    <2> QED BY <2>2, <2>3, <2>4 DEF IInv, Chain
  <1>2. ASSUME IInv, UNCHANGED vars PROVE IInv'
    <2>1. TypeOK' /\ Finite' /\ RequestReached' /\ CompletedIsWhole'
      BY <1>2 DEF IInv, vars, TypeOK, Finite, RequestReached, Reached,
         CompletedIsWhole
    <2>2. Counted' /\ PagesChained'
      BY <1>2 DEF IInv, vars, Counted, OncePerPost, PagesChained, Found
    <2>3. \A w \in Workers : Working(w)'
      BY <1>2 DEF IInv, vars, Working, Reached, At, NextCursor
    <2> QED BY <2>1, <2>2, <2>3 DEF IInv
  <1> QED BY <1>1, <1>2

LEMMA InvariantHolds == Spec => []IInv
  BY InitIInv, Inductive, PTL DEF Spec

\* The row, its candidates, checkpoints and workers are typed in every
\* reachable state, whatever the source answers.
THEOREM TypeCorrect == Spec => []TypeOK
  <1>1. IInv => TypeOK
    BY DEF IInv
  <1> QED BY <1>1, InvariantHolds, PTL

\* A page that is fetched twice or a post that comes twice is counted once:
\* returned_post_count is the number of the candidates, whose orders have no
\* gap, and it never passes the limit.
THEOREM CandidatesAreCounted == Spec => []CandidatesCounted
  <1>1. ASSUME IInv PROVE CandidatesCounted
    <2>1. /\ IsFiniteSet(candidates) /\ OncePerPost
          /\ {c.order : c \in candidates} = 0..(row.returned - 1)
          /\ Cardinality(candidates) = row.returned
          /\ row.returned <= MaxCandidates
      BY <1>1 DEF IInv, Finite, Counted
    <2> DEFINE f == [c \in candidates |-> c.post]
    <2>2. /\ f \in Injection(candidates, Found)
          /\ f \in Surjection(candidates, Found)
      BY <2>1 DEF Injection, Surjection, IsInjective, OncePerPost, Found
    <2> HIDE DEF f
    <2>3. Cardinality(Found) = Cardinality(candidates)
      BY <2>1, <2>2, FS_Surjection
    <2> QED BY <2>1, <2>3 DEF CandidatesCounted
  <1> QED BY <1>1, InvariantHolds, PTL

\* Whoever commits a page, and wherever a worker was cut off, the committed
\* pages lead from the first one to current_cursor without a gap, and all of
\* their posts are candidates.
THEOREM PagesAreChained == Spec => []PagesChained
  <1>1. IInv => PagesChained
    BY DEF IInv
  <1> QED BY <1>1, InvariantHolds, PTL

\* COMPLETED is never written for a search that was cut short: it has as many
\* candidates as it may have, or has seen the last page.
THEOREM CompletedSearchIsWhole == Spec => []CompletedIsWhole
  <1>1. IInv => CompletedIsWhole
    BY DEF IInv
  <1> QED BY <1>1, InvariantHolds, PTL

=============================================================================
