--------------------------- MODULE Reviews_proofs ---------------------------
(***************************************************************************)
(* Proofs about the number of reviews and what is in them, for any teachers, *)
(* criteria and overlapping requests.                                      *)
(***************************************************************************)
EXTENDS Reviews, FiniteSetTheorems, TLAPS

\* The requests that have found a slot and not yet created their review.
Creating == {t \in Teachers : job[t].at \in {"benchmarks", "criteria"}}

\* A request that holds a copy of the submission saves no review that does not
\* exist: reviews are not deleted.
CopyInv(t) == job[t].at \in {"save", "grade"} => DOMAIN job[t].subm \subseteq DOMAIN reviews

ReviewIDs == IsFiniteSet(DOMAIN reviews) /\ DOMAIN reviews = 1..Cardinality(DOMAIN reviews)

\* A slot is found while there are fewer reviews than reviewers, by a teacher who
\* is not creating one already.
CountInv ==
    Cardinality(DOMAIN reviews) + Cardinality(Creating) <= Reviewers + Cardinality(Teachers) - 1

JobType == job = [t \in Teachers |-> job[t]]

IInv == JobType /\ ReviewIDs /\ CountInv /\ \A t \in Teachers : CopyInv(t)

\* The invariant holds of a submission without reviews.
LEMMA InitIInv == Init => IInv
  <1> SUFFICES ASSUME Init PROVE IInv
    OBVIOUS
  <1>1. JobType /\ Creating = {} /\ \A t \in Teachers : CopyInv(t)
    BY DEF Init, JobType, Creating, CopyInv, Idle
  <1>2. DOMAIN reviews = {}
    BY DEF Init, None
  <1>3. ReviewIDs /\ Cardinality(DOMAIN reviews) = 0 /\ Cardinality(Creating) = 0
    BY <1>1, <1>2, FS_EmptySet DEF ReviewIDs
  <1>4. CountInv
    <2>1. Init => DOMAIN reviews = {}
      BY <1>2
    <2>2. Cardinality(Teachers) \in Nat
      BY TeachersAssumption, FS_CardinalityType
    <2>3. QED
      BY <1>3, <2>2, ReviewsAssumption DEF CountInv
  <1>5. QED
    BY <1>1, <1>3, <1>4 DEF IInv

\* The numbers of the invariant are natural numbers.
LEMMA Counts ==
  ASSUME ReviewIDs
  PROVE  /\ Cardinality(DOMAIN reviews) \in Nat /\ Cardinality(Teachers) \in Nat
         /\ IsFiniteSet(Creating) /\ Cardinality(Creating) \in Nat
         /\ Cardinality(Creating) <= Cardinality(Teachers)
         /\ Reviewers \in Nat /\ Reviewers # 0
  <1>1. IsFiniteSet(Creating) /\ Cardinality(Creating) <= Cardinality(Teachers)
    BY TeachersAssumption, FS_Subset DEF Creating
  <1>2. QED
    BY <1>1, TeachersAssumption, ReviewsAssumption, FS_CardinalityType DEF ReviewIDs

\* A step of one teacher that creates neither a review nor a request to do so.
LEMMA QuietStep ==
  ASSUME IInv, NEW t \in Teachers, NEW j, Goto(t, j), DOMAIN reviews' = DOMAIN reviews,
         j.at \in {"benchmarks", "criteria"} => t \in Creating,
         j.at \in {"save", "grade"} => DOMAIN j.subm \subseteq DOMAIN reviews
  PROVE  IInv'
  <1> USE DEF IInv, Goto, JobType
  <1>1. JobType' /\ job'[t] = j /\ \A u \in Teachers \ {t} : job'[u] = job[u]
    OBVIOUS
  <1>2. Creating' \subseteq Creating
    BY <1>1 DEF Creating
  <1>3. ReviewIDs'
    BY DEF ReviewIDs
  <1>4. CountInv'
    <2>1. Cardinality(Creating') <= Cardinality(Creating) /\ Cardinality(Creating') \in Nat
      BY <1>2, Counts, FS_Subset, FS_CardinalityType
    <2>2. QED
      BY <2>1, Counts DEF CountInv
  <1>5. \A u \in Teachers : CopyInv(u)'
    BY <1>1 DEF CopyInv
  <1>6. QED
    BY <1>1, <1>3, <1>4, <1>5

\* A teacher without a request asks for a review while there is a slot.
LEMMA CreateReviewKeeps ==
  ASSUME IInv, NEW t \in Teachers, CreateReview(t)
  PROVE  IInv'
  <1> USE DEF IInv, CreateReview, Goto, At, JobType
  <1>1. /\ JobType' /\ job'[t].at = "benchmarks" /\ job[t].at = "idle"
        /\ \A u \in Teachers \ {t} : job'[u] = job[u]
    OBVIOUS
  <1>2. t \notin Creating /\ Creating' = Creating \cup {t}
    BY <1>1 DEF Creating
  <1>3. ReviewIDs'
    BY DEF ReviewIDs
  <1>4. CountInv'
    <2>1. Cardinality(Creating') = Cardinality(Creating) + 1
      BY <1>2, Counts, FS_AddElement
    <2>2. Cardinality(Creating) < Cardinality(Teachers)
      BY <1>2, Counts, TeachersAssumption, FS_Subset DEF Creating
    <2>3. QED
      BY <2>1, <2>2, Counts DEF CountInv, SlotLeft
  <1>5. \A u \in Teachers : CopyInv(u)'
    BY <1>1 DEF CopyInv
  <1>6. QED
    BY <1>1, <1>3, <1>4, <1>5

\* Without criteria the score is left as it was sent.
LEMMA NewScore ==
  ASSUME NEW t
  PROVE  NewReview(t).Score = 0
  <1> DEFINE sentReview == [ReviewerID |-> t, Score |-> 0, GradingBenchmarks |-> None]
  <1>1. DOMAIN sentReview.GradingBenchmarks = {}
    BY DEF None
  <1>2. UNION {DOMAIN sentReview.GradingBenchmarks[b] : b \in DOMAIN sentReview.GradingBenchmarks}
          = {}
    BY <1>1
  <1>3. ComputeScore(sentReview) = [sentReview EXCEPT !.Score = sentReview.Score]
    BY <1>2 DEF ComputeScore
  <1>4. QED
    BY <1>3 DEF NewReview

\* It is created, with the next ID.
LEMMA InsertReviewKeeps ==
  ASSUME IInv, NEW t \in Teachers, InsertReview(t)
  PROVE  IInv'
  <1> USE DEF IInv, Goto, At, JobType
  <1> DEFINE n == Cardinality(DOMAIN reviews)
  <1>1. /\ job[t].at = "criteria" /\ job' = [job EXCEPT ![t] = Idle]
        /\ DOMAIN reviews' = DOMAIN reviews \cup {n + 1}
    <2>1. reviews' = Over([r \in {n + 1} |-> [ReviewerID |-> t, Score |-> 0]], reviews)
      BY NewScore DEF InsertReview
    <2>2. DOMAIN reviews' = DOMAIN [r \in {n + 1} |-> [ReviewerID |-> t, Score |-> 0]] \union DOMAIN reviews
      BY <2>1 DEF Over
    <2>3. QED
      BY <2>2 DEF InsertReview
  <1>2. /\ JobType' /\ job'[t].at = "idle"
        /\ \A u \in Teachers \ {t} : job'[u] = job[u]
    BY <1>1 DEF Idle
  <1>3. t \in Creating /\ Creating' = Creating \ {t}
    BY <1>1, <1>2 DEF Creating
  <1>4. DOMAIN reviews' = DOMAIN reviews \cup {n + 1}
    BY <1>1
  <1>5. n \in Nat /\ DOMAIN reviews = 1..n /\ n + 1 \notin DOMAIN reviews
    BY Counts DEF ReviewIDs
  <1> HIDE DEF n
  <1>6. DOMAIN reviews' = 1..n + 1
    BY <1>4, <1>5
  <1>7. IsFiniteSet(DOMAIN reviews') /\ Cardinality(DOMAIN reviews') = n + 1
    <2>1. 1 \in Int /\ n + 1 \in Int /\ ~ (1 > n + 1) /\ (n + 1) - 1 + 1 = n + 1
      BY <1>5
    <2>2. IsFiniteSet(1..n + 1) /\ Cardinality(1..n + 1) = n + 1
      BY <2>1, FS_Interval
    <2>3. QED
      BY <1>6, <2>2
  <1>8. ReviewIDs'
    BY <1>6, <1>7 DEF ReviewIDs
  <1>9. CountInv'
    <2>1. Cardinality(Creating') = Cardinality(Creating) - 1
      BY <1>3, Counts, FS_RemoveElement
    <2>2. n + Cardinality(Creating) <= Reviewers + Cardinality(Teachers) - 1
      BY DEF n, CountInv
    <2>3. QED
      BY <1>5, <1>7, <2>1, <2>2, Counts DEF CountInv
  <1>10. \A u \in Teachers : CopyInv(u)'
    BY <1>2, <1>4 DEF CopyInv
  <1>11. QED
    BY <1>2, <1>8, <1>9, <1>10

\* The reviews that are saved exist.
LEMMA SavedReviewsExist ==
  ASSUME NEW subm, DOMAIN subm \subseteq DOMAIN reviews, SaveSubmission(subm)
  PROVE  DOMAIN reviews' = DOMAIN reviews
  <1> DEFINE rows == [r \in DOMAIN subm |-> [ReviewerID |-> subm[r].ReviewerID, Score |-> subm[r].Score]]
  <1>1. reviews' = Over(rows, reviews) /\ DOMAIN rows = DOMAIN subm
    BY DEF SaveSubmission
  <1> HIDE DEF rows
  <1>2. DOMAIN reviews' = DOMAIN rows \union DOMAIN reviews
    BY <1>1 DEF Over
  <1>3. QED
    BY <1>1, <1>2

\* Every step keeps the invariant.
LEMMA IInvStep == IInv /\ [Next]_vars => IInv'
  <1> SUFFICES ASSUME IInv, [Next]_vars PROVE IInv'
    OBVIOUS
  <1>1. CASE UNCHANGED <<reviews, job>>
    BY <1>1 DEF IInv, JobType, ReviewIDs, CountInv, Creating, CopyInv
  <1>2. ASSUME NEW t \in Teachers, Request(t) PROVE IInv'
    <2>1. CASE Load(t)
      BY <1>1, <2>1 DEF Load
    <2>2. CASE CreateReview(t)
      BY <2>2, CreateReviewKeeps
    <2>3. CASE ReadBenchmarks(t)
      BY <2>3, QuietStep DEF ReadBenchmarks, At, Creating
    <2>4. CASE ReadCriteria(t)
      <3>1. \E b \in job[t].toRead,
                c \in {benchmarks[id].Criteria : id \in DOMAIN benchmarks} \union {None} :
               Goto(t, [job[t] EXCEPT !.toRead = @ \ {b},
                                      !.read = Over([id \in {b} |-> c], @)])
        BY <2>4 DEF ReadCriteria
      <3>2. \A b, c : [job[t] EXCEPT !.toRead = @ \ {b},
                              !.read = Over([id \in {b} |-> c], @)].at = "criteria"
        BY <2>4 DEF ReadCriteria, At
      <3>3. t \in Creating /\ reviews' = reviews
        BY <2>4 DEF ReadCriteria, At, Creating
      <3>4. QED
        BY <3>1, <3>2, <3>3, QuietStep
    <2>5. CASE InsertReview(t)
      BY <2>5, InsertReviewKeeps
    <2>6. CASE UpdateReview(t)
      <3>1. PICK review : Goto(t, [at |-> "save", review |-> review, subm |-> GetSubmission])
        BY <2>6 DEF UpdateReview
      <3>2. DOMAIN GetSubmission = DOMAIN reviews /\ reviews' = reviews
        BY <2>6 DEF GetSubmission, UpdateReview
      <3>3. QED
        BY <3>1, <3>2, QuietStep
    <2>7. CASE SaveReview(t)
      <3>1. DOMAIN Replace(job[t].subm, job[t].review) = DOMAIN job[t].subm
        BY DEF Replace
      <3>2. DOMAIN job[t].subm \subseteq DOMAIN reviews
        BY <2>7 DEF SaveReview, At, IInv, CopyInv
      <3>3. DOMAIN reviews' = DOMAIN reviews /\ Goto(t, Idle)
        BY <2>7, <3>1, <3>2, SavedReviewsExist DEF SaveReview
      <3>4. QED
        BY <3>3, QuietStep DEF Idle
    <2>8. CASE UpdateSubmission(t)
      <3>1. Goto(t, [at |-> "grade", score |-> score, subm |-> GetSubmission])
        BY <2>8 DEF UpdateSubmission
      <3>2. DOMAIN GetSubmission = DOMAIN reviews /\ reviews' = reviews
        BY <2>8 DEF GetSubmission, UpdateSubmission
      <3>3. QED
        BY <3>1, <3>2, QuietStep
    <2>9. CASE SaveGrade(t)
      <3>1. DOMAIN job[t].subm \subseteq DOMAIN reviews
        BY <2>9 DEF SaveGrade, At, IInv, CopyInv
      <3>2. DOMAIN reviews' = DOMAIN reviews /\ Goto(t, Idle)
        BY <2>9, <3>1, SavedReviewsExist DEF SaveGrade
      <3>3. QED
        BY <3>2, QuietStep DEF Idle
    <2>10. QED
      BY <1>2, <2>1, <2>2, <2>3, <2>4, <2>5, <2>6, <2>7, <2>8, <2>9 DEF Request
  <1>3. CASE updateGradingCriteria
    BY <1>1, <1>3 DEF updateGradingCriteria
  <1>4. CASE UNCHANGED vars
    BY <1>1, <1>4 DEF vars
  <1>5. QED
    BY <1>2, <1>3, <1>4 DEF Next

\* However the requests of any teachers overlap, each creates at most one review
\* beyond the number of reviewers, also when all reviews are saved from old copies
\* (CreateReview and UpdateReview, database/gormdb_submission.go).
THEOREM ReviewsSafety == Spec => []ReviewsBounded
  <1>1. IInv => ReviewsBounded
    BY Counts DEF IInv, CountInv, ReviewsBounded
  <1>2. QED
    BY <1>1, InitIInv, IInvStep, PTL DEF Spec

-----------------------------------------------------------------------------
(* What the reviews have in them.                                          *)

\* Benchmarks of a review; those of the assignment for 0.
Own(r) == {b \in DOMAIN benchmarks : benchmarks[b].ReviewID = r}

TableInv ==
    /\ lastID \in Nat /\ DOMAIN benchmarks \subseteq 1..lastID
    /\ \A b \in DOMAIN benchmarks : benchmarks[b].ReviewID \in {0} \union DOMAIN reviews

\* A review as it was sent or answered has the benchmarks that it has in the table,
\* each with the same criteria.
Whole(x) ==
    /\ x.ID \in DOMAIN reviews
    /\ x = [ID |-> x.ID, ReviewerID |-> x.ReviewerID, Score |-> x.Score,
            GradingBenchmarks |-> [b \in Own(x.ID) |-> x.GradingBenchmarks[b]]]
    /\ \A b \in Own(x.ID) : DOMAIN x.GradingBenchmarks[b] = DOMAIN benchmarks[b].Criteria

\* Browsers and requests hold such reviews.
Held(t) ==
    /\ \A r \in DOMAIN browser[t] : browser[t][r] \in sent /\ browser[t][r].ID = r
    /\ job[t].at = "criteria" => IsFiniteSet(DOMAIN job[t].read)
    /\ job[t].at = "save" => job[t].review \in sent
    /\ job[t].at \in {"save", "grade"} =>
            \A r \in DOMAIN job[t].subm : job[t].subm[r] \in sent /\ job[t].subm[r].ID = r

BrowserType == browser = [t \in Teachers |-> browser[t]]

CopiesInv ==
    /\ BrowserType /\ TableInv /\ StoredAsSent
    /\ \A x \in sent : Whole(x)
    /\ \A t \in Teachers : Held(t)

\* No review gets, loses or changes a benchmark.
Kept ==
    \A r \in DOMAIN reviews :
        /\ Own(r)' = Own(r)
        /\ \A b \in Own(r) : DOMAIN benchmarks'[b].Criteria = DOMAIN benchmarks[b].Criteria

\* The sequence of a finite set has its elements.
LEMMA SetToSeqLength ==
  ASSUME NEW S, IsFiniteSet(S)
  PROVE  Cardinality(S) \in Nat /\ Len(SetToSeq(S)) = Cardinality(S)
  <1>1. PICK n \in Nat : ExistsBijection(1..n, S)
    BY FS_NatBijection
  <1>2. Cardinality(S) = n
    BY <1>1, FS_CountingElements
  <1>3. \E f \in [1..Cardinality(S) -> S] : IsInjective(f)
    BY <1>1, <1>2 DEF ExistsBijection, Bijection, Injection, IsInjective
  <1> DEFINE q == SetToSeq(S)
  <1>4. q \in [1..Cardinality(S) -> S]
    BY <1>3 DEF SetToSeq
  <1> HIDE DEF q
  <1>5. q \in [1..n -> S]
    BY <1>2, <1>4
  <1>6. q \in Seq(S) /\ Len(q) = n
    BY <1>5
  <1>7. QED
    BY <1>2, <1>6 DEF q

\* The invariant is kept by a step that keeps its parts, and the reviews.
LEMMA PartsSuffice ==
  ASSUME CopiesInv, Kept, BrowserType', TableInv', StoredAsSent',
         DOMAIN reviews \subseteq DOMAIN reviews',
         \A x \in sent' \ sent : Whole(x)',
         \A t \in Teachers : Held(t)'
  PROVE  CopiesInv'
  <1>1. ASSUME NEW x \in sent' PROVE Whole(x)'
    <2>1. CASE x \in sent
      <3>1. Whole(x) /\ x.ID \in DOMAIN reviews
        BY <2>1 DEF CopiesInv, Whole
      <3>2. /\ Own(x.ID)' = Own(x.ID)
            /\ \A b \in Own(x.ID) : DOMAIN benchmarks'[b].Criteria = DOMAIN benchmarks[b].Criteria
        BY <3>1 DEF Kept
      <3>3. QED
        BY <3>1, <3>2 DEF Whole
    <2>2. QED
      BY <2>1
  <1>2. QED
    BY <1>1 DEF CopiesInv

\* Nobody's browser or request changes but one teacher's.
LEMMA OthersHold ==
  ASSUME CopiesInv, NEW t \in Teachers, sent \subseteq sent',
         \A u \in Teachers \ {t} : browser'[u] = browser[u] /\ job'[u] = job[u],
         Held(t)'
  PROVE  \A u \in Teachers : Held(u)'
  BY DEF CopiesInv, Held

\* The tables stay as they are.
LEMMA TablesStay ==
  ASSUME CopiesInv, UNCHANGED <<benchmarks, reviews, lastID>>, sent \subseteq sent'
  PROVE  Kept /\ TableInv' /\ StoredAsSent'
  <1>1. Kept /\ TableInv'
    BY DEF CopiesInv, Kept, TableInv, Own
  <1>2. GetSubmission' = GetSubmission
    BY DEF GetSubmission, CriteriaOf
  <1>3. QED
    BY <1>1, <1>2 DEF CopiesInv, StoredAsSent

\* All reviews of a submission are saved, as some browser held or got them.
LEMMA SaveSubmissionKeeps ==
  ASSUME IInv, CopiesInv, NEW subm, DOMAIN subm \subseteq DOMAIN reviews,
         \A r \in DOMAIN subm : subm[r] \in sent /\ subm[r].ID = r,
         SaveSubmission(subm), UNCHANGED <<lastID, sent>>
  PROVE  Kept /\ TableInv' /\ StoredAsSent' /\ DOMAIN reviews' = DOMAIN reviews
  <1> DEFINE rows == [r \in DOMAIN subm |-> [ReviewerID |-> subm[r].ReviewerID, Score |-> subm[r].Score]]
             holder(b) == CHOOSE r \in DOMAIN subm : b \in DOMAIN subm[r].GradingBenchmarks
             saved == [b \in UNION {DOMAIN subm[r].GradingBenchmarks : r \in DOMAIN subm} |->
                         [ReviewID |-> holder(b), Criteria |-> subm[holder(b)].GradingBenchmarks[b]]]
  <1>1. reviews' = Over(rows, reviews) /\ benchmarks' = Over(saved, benchmarks)
    BY DEF SaveSubmission
  <1>2. ASSUME NEW r \in DOMAIN subm
        PROVE  /\ subm[r] = [ID |-> r, ReviewerID |-> subm[r].ReviewerID, Score |-> subm[r].Score,
                             GradingBenchmarks |-> subm[r].GradingBenchmarks]
               /\ subm[r].GradingBenchmarks = [b \in Own(r) |-> subm[r].GradingBenchmarks[b]]
               /\ DOMAIN subm[r].GradingBenchmarks = Own(r)
               /\ \A b \in Own(r) :
                    DOMAIN subm[r].GradingBenchmarks[b] = DOMAIN benchmarks[b].Criteria
    <2>1. Whole(subm[r]) /\ subm[r].ID = r
      BY <1>2 DEF CopiesInv
    <2>2. subm[r] = [ID |-> r, ReviewerID |-> subm[r].ReviewerID, Score |-> subm[r].Score,
                     GradingBenchmarks |-> [b \in Own(r) |-> subm[r].GradingBenchmarks[b]]]
      BY <2>1 DEF Whole
    <2>3. subm[r].GradingBenchmarks = [b \in Own(r) |-> subm[r].GradingBenchmarks[b]]
      BY <2>2
    <2>4. QED
      BY <2>1, <2>2, <2>3 DEF Whole
  <1>3. ASSUME NEW r \in DOMAIN subm, NEW b \in Own(r)
        PROVE  /\ b \in DOMAIN saved /\ holder(b) = r
               /\ saved[b] = [ReviewID |-> r, Criteria |-> subm[r].GradingBenchmarks[b]]
    <2>1. \A q \in DOMAIN subm : b \in DOMAIN subm[q].GradingBenchmarks <=> q = r
      <3>1. \A q \in DOMAIN subm : DOMAIN subm[q].GradingBenchmarks = Own(q)
        BY <1>2
      <3>2. \A q : b \in Own(q) <=> q = r
        BY DEF Own
      <3>3. QED
        BY <3>1, <3>2
    <2>2. holder(b) = r /\ b \in DOMAIN subm[r].GradingBenchmarks
      BY <2>1
    <2>3. QED
      BY <2>2
  <1>4. ASSUME NEW b \in DOMAIN saved
        PROVE  b \in DOMAIN benchmarks /\ benchmarks[b].ReviewID \in DOMAIN subm
    <2>1. PICK r \in DOMAIN subm : b \in DOMAIN subm[r].GradingBenchmarks
      OBVIOUS
    <2>2. b \in Own(r)
      BY <1>2, <2>1
    <2>3. QED
      BY <2>2 DEF Own
  <1>5. DOMAIN rows = DOMAIN subm
    OBVIOUS
  <1>6. \A r \in DOMAIN subm :
            rows[r] = [ReviewerID |-> subm[r].ReviewerID, Score |-> subm[r].Score]
    OBVIOUS
  <1> HIDE DEF rows, saved, holder
  <1>7. DOMAIN reviews' = DOMAIN rows \union DOMAIN reviews
    BY <1>1 DEF Over
  <1>8. DOMAIN reviews' = DOMAIN reviews
    BY <1>5, <1>7
  <1>9. \A r \in DOMAIN rows : reviews'[r] = rows[r]
    BY <1>1 DEF Over
  <1>10. \A r \in DOMAIN reviews : r \notin DOMAIN rows => reviews'[r] = reviews[r]
    BY <1>1 DEF Over
  <1>11. DOMAIN benchmarks' = DOMAIN saved \union DOMAIN benchmarks
    BY <1>1 DEF Over
  <1>12. DOMAIN benchmarks' = DOMAIN benchmarks
    BY <1>4, <1>11
  <1>13. \A b \in DOMAIN saved : benchmarks'[b] = saved[b]
    BY <1>1 DEF Over
  <1>14. \A b \in DOMAIN benchmarks : b \notin DOMAIN saved => benchmarks'[b] = benchmarks[b]
    BY <1>1 DEF Over
  <1>15. ASSUME NEW b \in DOMAIN benchmarks
         PROVE  /\ benchmarks'[b].ReviewID = benchmarks[b].ReviewID
                /\ DOMAIN benchmarks'[b].Criteria = DOMAIN benchmarks[b].Criteria
    <2>1. CASE b \in DOMAIN saved
      <3>1. PICK r \in DOMAIN subm : b \in Own(r)
        BY <1>4, <2>1 DEF Own
      <3>2. benchmarks'[b] = [ReviewID |-> r, Criteria |-> subm[r].GradingBenchmarks[b]]
        BY <1>3, <1>13, <3>1
      <3>3. benchmarks[b].ReviewID = r
        BY <3>1 DEF Own
      <3>4. DOMAIN subm[r].GradingBenchmarks[b] = DOMAIN benchmarks[b].Criteria
        BY <1>2, <3>1
      <3>5. QED
        BY <3>2, <3>3, <3>4
    <2>2. QED
      BY <1>14, <2>1
  <1>16. \A r : Own(r)' = Own(r)
    BY <1>12, <1>15 DEF Own
  <1>17. Kept
    BY <1>15, <1>16 DEF Kept, Own
  <1>18. TableInv'
    BY <1>8, <1>12, <1>15 DEF CopiesInv, TableInv
  <1>19. ASSUME NEW r \in DOMAIN reviews PROVE GetSubmission'[r] \in sent
    <2>1. GetSubmission'[r] =
            [ID |-> r, ReviewerID |-> reviews'[r].ReviewerID, Score |-> reviews'[r].Score,
             GradingBenchmarks |-> [b \in Own(r) |-> benchmarks'[b].Criteria]]
      BY <1>8, <1>16 DEF GetSubmission, CriteriaOf, Own
    <2>2. CASE r \in DOMAIN subm
      <3>1. reviews'[r] = [ReviewerID |-> subm[r].ReviewerID, Score |-> subm[r].Score]
        BY <1>5, <1>6, <1>9, <2>2
      <3>2. ASSUME NEW b \in Own(r)
            PROVE  benchmarks'[b].Criteria = subm[r].GradingBenchmarks[b]
        <4>1. b \in DOMAIN saved /\ saved[b] = [ReviewID |-> r, Criteria |-> subm[r].GradingBenchmarks[b]]
          BY <1>3, <2>2
        <4>2. benchmarks'[b] = saved[b]
          BY <1>13, <4>1
        <4>3. QED
          BY <4>1, <4>2
      <3>3. [b \in Own(r) |-> benchmarks'[b].Criteria] = subm[r].GradingBenchmarks
        BY <1>2, <2>2, <3>2
      <3>4. GetSubmission'[r] = subm[r]
        BY <1>2, <2>1, <2>2, <3>1, <3>3
      <3>5. QED
        BY <2>2, <3>4
    <2>3. CASE r \notin DOMAIN subm
      <3>1. \A b \in Own(r) : b \notin DOMAIN saved
        BY <1>4, <2>3 DEF Own
      <3>2. reviews'[r] = reviews[r] /\ \A b \in Own(r) : benchmarks'[b] = benchmarks[b]
        BY <1>5, <1>10, <1>14, <2>3, <3>1 DEF Own
      <3>3. GetSubmission'[r] = GetSubmission[r]
        BY <2>1, <3>2 DEF GetSubmission, CriteriaOf, Own
      <3>4. QED
        BY <3>3 DEF CopiesInv, StoredAsSent
    <2>4. QED
      BY <2>2, <2>3
  <1>20. StoredAsSent'
    BY <1>8, <1>19 DEF StoredAsSent
  <1>21. QED
    BY <1>8, <1>17, <1>18, <1>20

\* The assignment gets other benchmarks.
LEMMA CriteriaKeep ==
  ASSUME IInv, CopiesInv, updateGradingCriteria
  PROVE  Kept /\ CopiesInv'
  <1> DEFINE kept == [b \in DOMAIN benchmarks \ GetBenchmarks(benchmarks) |-> benchmarks[b]]
  <1>1. PICK v \in Versions :
            /\ lastID' = lastID + Cardinality(v)
            /\ benchmarks' = Over(kept, NewRows(v, lastID))
            /\ UNCHANGED <<reviews, score, status, browser, job, edits, sent>>
    BY DEF updateGradingCriteria
  <1> DEFINE new == NewRows(v, lastID)
  <1>2. Cardinality(v) \in Nat /\ Len(SetToSeq(v)) = Cardinality(v)
    BY VersionsAssumption, SetToSeqLength
  <1>3. DOMAIN new = lastID+1..lastID+Cardinality(v) /\ \A b \in DOMAIN new : new[b].ReviewID = 0
    BY <1>2 DEF NewRows
  <1>4. /\ DOMAIN kept = {b \in DOMAIN benchmarks : benchmarks[b].ReviewID # 0}
        /\ \A b \in DOMAIN kept : kept[b] = benchmarks[b]
    BY DEF GetBenchmarks
  <1>5. 0 \notin DOMAIN reviews /\ lastID \in Nat /\ DOMAIN benchmarks \subseteq 1..lastID
    BY Counts DEF IInv, ReviewIDs, CopiesInv, TableInv
  <1> HIDE DEF kept, new
  <1>6. benchmarks' = Over(kept, new)
    BY <1>1 DEF new
  <1>7. DOMAIN benchmarks' = DOMAIN kept \union DOMAIN new
    BY <1>6 DEF Over
  <1>8. \A b \in DOMAIN kept : benchmarks'[b] = kept[b]
    BY <1>6 DEF Over
  <1>9. \A b \in DOMAIN new : b \notin DOMAIN kept => benchmarks'[b] = new[b]
    BY <1>6 DEF Over
  <1>10. DOMAIN new \cap DOMAIN kept = {}
    BY <1>3, <1>4, <1>5, <1>2
  <1>11. \A r \in DOMAIN reviews : Own(r)' = Own(r)
    <2>1. \A b \in DOMAIN kept : benchmarks'[b].ReviewID = benchmarks[b].ReviewID
      BY <1>4, <1>8
    <2>2. \A b \in DOMAIN new : b \in DOMAIN benchmarks' /\ benchmarks'[b].ReviewID = 0
      BY <1>3, <1>7, <1>9, <1>10
    <2>3. ASSUME NEW r \in DOMAIN reviews PROVE Own(r)' = Own(r)
      <3>1. r # 0
        BY <1>5
      <3>2. \A b : b \in DOMAIN benchmarks' /\ benchmarks'[b].ReviewID = r
                    <=> b \in DOMAIN kept /\ benchmarks[b].ReviewID = r
        BY <1>7, <2>1, <2>2, <3>1
      <3>3. \A b : b \in DOMAIN kept /\ benchmarks[b].ReviewID = r
                    <=> b \in DOMAIN benchmarks /\ benchmarks[b].ReviewID = r
        BY <1>4, <3>1
      <3>4. QED
        BY <3>2, <3>3 DEF Own
    <2>4. QED
      BY <2>3 DEF Own
  <1>12. \A r \in DOMAIN reviews : \A b \in Own(r) : benchmarks'[b] = benchmarks[b]
    BY <1>4, <1>5, <1>8 DEF Own
  <1>13. Kept
    BY <1>11, <1>12 DEF Kept
  <1>14. TableInv'
    <2>1. lastID' \in Nat /\ DOMAIN benchmarks' \subseteq 1..lastID'
      BY <1>1, <1>2, <1>3, <1>4, <1>5, <1>7
    <2>2. ASSUME NEW b \in DOMAIN benchmarks'
          PROVE  benchmarks'[b].ReviewID \in {0} \union DOMAIN reviews'
      <3>1. CASE b \in DOMAIN kept
        BY <1>1, <1>4, <1>8, <3>1 DEF CopiesInv, TableInv
      <3>2. QED
        BY <1>3, <1>7, <1>9, <3>1
    <2>3. QED
      BY <2>1, <2>2 DEF TableInv
  <1>15. StoredAsSent'
    <2>1. \A r \in DOMAIN reviews : GetSubmission'[r] = GetSubmission[r]
      BY <1>1, <1>11, <1>12 DEF GetSubmission, CriteriaOf, Own
    <2>2. QED
      BY <1>1, <2>1 DEF CopiesInv, StoredAsSent
  <1>16. BrowserType' /\ \A t \in Teachers : Held(t)'
    BY <1>1 DEF CopiesInv, BrowserType, Held
  <1>17. QED
    BY <1>1, <1>13, <1>14, <1>15, <1>16, PartsSuffice

\* A review is created: its benchmarks are new rows.
LEMMA InsertedKeeps ==
  ASSUME IInv, CopiesInv, NEW t \in Teachers, InsertReview(t), NEW id, NEW order, NEW copies,
         id = Cardinality(DOMAIN reviews) + 1, order = SetToSeq(DOMAIN job[t].read),
         copies = [i \in lastID+1..lastID+Len(order) |-> job[t].read[order[i - lastID]]]
  PROVE  Kept /\ CopiesInv'
  <1> DEFINE review == [ID |-> id, ReviewerID |-> t, Score |-> 0, GradingBenchmarks |-> copies]
             row == [r \in {id} |-> [ReviewerID |-> t, Score |-> 0]]
             new == [i \in DOMAIN copies |-> [ReviewID |-> id, Criteria |-> copies[i]]]
             held == [r \in {id} |-> review]
  <1>1. /\ job[t].at = "criteria"
        /\ reviews' = Over(row, reviews) /\ benchmarks' = Over(new, benchmarks)
        /\ lastID' = lastID + Len(order)
        /\ browser' = [browser EXCEPT ![t] = Over(held, browser[t])]
        /\ sent' = sent \union {review} /\ job' = [job EXCEPT ![t] = Idle]
    BY NewScore DEF InsertReview, At, Goto
  <1>2. Len(order) \in Nat
    BY <1>1, SetToSeqLength DEF CopiesInv, Held
  <1>3. /\ id \notin DOMAIN reviews /\ id # 0 /\ 0 \notin DOMAIN reviews
        /\ lastID \in Nat /\ DOMAIN benchmarks \subseteq 1..lastID
    BY Counts DEF IInv, ReviewIDs, CopiesInv, TableInv
  <1>4. DOMAIN copies = lastID+1..lastID+Len(order)
    OBVIOUS
  <1>5. DOMAIN row = {id} /\ row[id] = [ReviewerID |-> t, Score |-> 0]
    OBVIOUS
  <1>6. /\ DOMAIN new = DOMAIN copies
        /\ \A b \in DOMAIN new : new[b] = [ReviewID |-> id, Criteria |-> copies[b]]
    OBVIOUS
  <1>7. DOMAIN held = {id} /\ held[id] = review
    OBVIOUS
  <1>8. review.ID = id
    OBVIOUS
  <1> HIDE DEF row, new, held
  <1>9. DOMAIN reviews' = DOMAIN row \union DOMAIN reviews
    BY <1>1 DEF Over
  <1>10. \A r \in DOMAIN row : reviews'[r] = row[r]
    BY <1>1 DEF Over
  <1>11. \A r \in DOMAIN reviews : r \notin DOMAIN row => reviews'[r] = reviews[r]
    BY <1>1 DEF Over
  <1>12. DOMAIN benchmarks' = DOMAIN new \union DOMAIN benchmarks
    BY <1>1 DEF Over
  <1>13. \A b \in DOMAIN new : benchmarks'[b] = new[b]
    BY <1>1 DEF Over
  <1>14. \A b \in DOMAIN benchmarks : b \notin DOMAIN new => benchmarks'[b] = benchmarks[b]
    BY <1>1 DEF Over
  <1>15. DOMAIN new \cap DOMAIN benchmarks = {}
    BY <1>2, <1>3, <1>4, <1>6
  <1>16. \A b \in DOMAIN benchmarks : benchmarks'[b] = benchmarks[b]
    BY <1>14, <1>15
  <1>17. \A b \in DOMAIN new : b \in DOMAIN benchmarks' /\ benchmarks'[b].ReviewID = id
    BY <1>6, <1>12, <1>13
  <1>18. ASSUME NEW r \in DOMAIN reviews PROVE Own(r)' = Own(r)
    <2>1. r # id
      BY <1>3
    <2>2. \A b : b \in DOMAIN benchmarks' /\ benchmarks'[b].ReviewID = r
                  <=> b \in DOMAIN benchmarks /\ benchmarks[b].ReviewID = r
      BY <1>12, <1>16, <1>17, <2>1
    <2>3. QED
      BY <2>2 DEF Own
  <1>19. {b \in DOMAIN benchmarks' : benchmarks'[b].ReviewID = id} = DOMAIN copies
    <2>1. \A b \in DOMAIN benchmarks : benchmarks[b].ReviewID # id
      BY <1>3 DEF CopiesInv, TableInv
    <2>2. \A b : b \in DOMAIN benchmarks' /\ benchmarks'[b].ReviewID = id
                  <=> b \in DOMAIN new
      BY <1>12, <1>16, <1>17, <2>1
    <2>3. QED
      BY <1>6, <2>2 DEF Own
  <1>20. \A b \in DOMAIN copies : benchmarks'[b].Criteria = copies[b]
    BY <1>6, <1>13
  <1>21. copies = [b \in DOMAIN copies |-> copies[b]]
    OBVIOUS
  <1>22. Kept
    BY <1>16, <1>18 DEF Kept, Own
  <1>23. Whole(review)'
    <2>1. review = [ID |-> id, ReviewerID |-> t, Score |-> 0,
                    GradingBenchmarks |-> [b \in DOMAIN copies |-> copies[b]]]
      BY <1>21
    <2>2. id \in DOMAIN reviews'
      BY <1>5, <1>9
    <2>3. QED
      BY <1>19, <1>20, <2>1, <2>2 DEF Whole, Own
  <1>24. TableInv'
    <2>1. lastID' \in Nat /\ DOMAIN benchmarks' \subseteq 1..lastID'
      BY <1>1, <1>2, <1>3, <1>4, <1>6, <1>12
    <2>2. ASSUME NEW b \in DOMAIN benchmarks'
          PROVE  benchmarks'[b].ReviewID \in {0} \union DOMAIN reviews'
      <3>1. CASE b \in DOMAIN new
        BY <1>5, <1>9, <1>17, <3>1
      <3>2. CASE b \in DOMAIN benchmarks
        BY <1>9, <1>16, <3>2 DEF CopiesInv, TableInv
      <3>3. QED
        BY <1>12, <3>1, <3>2
    <2>3. QED
      BY <2>1, <2>2 DEF TableInv
  <1>25. StoredAsSent'
    <2>1. ASSUME NEW r \in DOMAIN reviews PROVE GetSubmission'[r] = GetSubmission[r]
      <3>1. reviews'[r] = reviews[r] /\ r \in DOMAIN reviews'
        BY <1>3, <1>5, <1>9, <1>11
      <3>2. Own(r)' = Own(r) /\ \A b \in Own(r) : benchmarks'[b] = benchmarks[b]
        BY <1>16, <1>18 DEF Own
      <3>3. QED
        BY <3>1, <3>2 DEF GetSubmission, CriteriaOf, Own
    <2>2. GetSubmission'[id] = review
      <3>1. reviews'[id] = [ReviewerID |-> t, Score |-> 0] /\ id \in DOMAIN reviews'
        BY <1>5, <1>9, <1>10
      <3>2. [b \in DOMAIN copies |-> benchmarks'[b].Criteria] = copies
        BY <1>20, <1>21
      <3>3. GetSubmission'[id] =
              [ID |-> id, ReviewerID |-> reviews'[id].ReviewerID, Score |-> reviews'[id].Score,
               GradingBenchmarks |-> [b \in DOMAIN copies |-> benchmarks'[b].Criteria]]
        BY <1>19, <3>1 DEF GetSubmission, CriteriaOf
      <3>4. reviews'[id].ReviewerID = t /\ reviews'[id].Score = 0
        BY <3>1
      <3>5. QED
        BY <3>2, <3>3, <3>4
    <2>3. DOMAIN reviews' = {id} \union DOMAIN reviews
      BY <1>5, <1>9
    <2>4. ASSUME NEW r \in DOMAIN reviews' PROVE GetSubmission'[r] \in sent'
      <3>1. CASE r = id
        BY <1>1, <2>2, <3>1
      <3>2. CASE r \in DOMAIN reviews
        BY <1>1, <2>1, <3>2 DEF CopiesInv, StoredAsSent
      <3>3. QED
        BY <2>3, <3>1, <3>2
    <2>5. QED
      BY <2>4 DEF StoredAsSent
  <1>26. BrowserType' /\ browser'[t] = Over(held, browser[t])
         /\ \A u \in Teachers \ {t} : browser'[u] = browser[u] /\ job'[u] = job[u]
    BY <1>1 DEF CopiesInv, BrowserType, IInv, JobType
  <1>27. Held(t)'
    <2>1. DOMAIN browser'[t] = DOMAIN held \union DOMAIN browser[t]
      BY <1>26 DEF Over
    <2>2. \A r \in DOMAIN held : browser'[t][r] = held[r]
      BY <1>26 DEF Over
    <2>3. \A r \in DOMAIN browser[t] : r \notin DOMAIN held => browser'[t][r] = browser[t][r]
      BY <1>26 DEF Over
    <2>4. \A r \in DOMAIN browser[t] : browser[t][r] \in sent /\ browser[t][r].ID = r
      BY DEF CopiesInv, Held
    <2>5. \A r \in DOMAIN browser'[t] : browser'[t][r] \in sent' /\ browser'[t][r].ID = r
      BY <1>1, <1>7, <1>8, <2>1, <2>2, <2>3, <2>4
    <2>6. job'[t].at = "idle"
      BY <1>1 DEF IInv, JobType, Idle
    <2>7. QED
      BY <2>5, <2>6 DEF Held
  <1>28. DOMAIN reviews \subseteq DOMAIN reviews' /\ sent \subseteq sent'
    BY <1>1, <1>9
  <1>29. ASSUME NEW x \in sent' \ sent PROVE Whole(x)'
    <2>1. x = review
      BY <1>1
    <2>2. QED
      BY <1>23, <2>1
  <1>30. \A u \in Teachers : Held(u)'
    BY <1>26, <1>27, <1>28, OthersHold
  <1>31. QED
    BY <1>22, <1>24, <1>25, <1>26, <1>28, <1>29, <1>30, PartsSuffice

LEMMA InsertKeeps ==
  ASSUME IInv, CopiesInv, NEW t \in Teachers, InsertReview(t)
  PROVE  Kept /\ CopiesInv'
  <1>1. PICK id, order : /\ id = Cardinality(DOMAIN reviews) + 1
                         /\ order = SetToSeq(DOMAIN job[t].read)
    OBVIOUS
  <1>2. PICK copies :
          copies = [i \in lastID+1..lastID+Len(order) |-> job[t].read[order[i - lastID]]]
    OBVIOUS
  <1>3. QED
    BY <1>1, <1>2, InsertedKeeps

\* A request reads or computes, and changes no table.
LEMMA QuietCopies ==
  ASSUME IInv, CopiesInv, NEW t \in Teachers, UNCHANGED <<benchmarks, reviews, lastID>>,
         BrowserType', sent \subseteq sent', \A x \in sent' \ sent : Whole(x)',
         \A u \in Teachers \ {t} : browser'[u] = browser[u] /\ job'[u] = job[u],
         Held(t)'
  PROVE  Kept /\ CopiesInv'
  <1>1. Kept /\ TableInv' /\ StoredAsSent'
    BY TablesStay
  <1>2. \A u \in Teachers : Held(u)'
    BY OthersHold
  <1>3. QED
    BY <1>1, <1>2, PartsSuffice

\* A request changes its own state only.
LEMMA GoesOn ==
  ASSUME IInv, NEW t \in Teachers, NEW j, Goto(t, j)
  PROVE  job'[t] = j /\ \A u \in Teachers \ {t} : job'[u] = job[u]
  BY DEF IInv, JobType, Goto

LEMMA LoadCopies ==
  ASSUME IInv, CopiesInv, NEW t \in Teachers, Load(t)
  PROVE  Kept /\ CopiesInv'
  <1>1. /\ browser'[t] = GetSubmission /\ BrowserType'
        /\ \A u \in Teachers \ {t} : browser'[u] = browser[u]
    BY DEF Load, CopiesInv, BrowserType
  <1>2. job' = job /\ sent' = sent /\ job[t].at = "idle"
    BY DEF Load, At
  <1>3. \A r \in DOMAIN browser'[t] : browser'[t][r] \in sent /\ browser'[t][r].ID = r
    <2>1. \A r \in DOMAIN reviews : GetSubmission[r] \in sent /\ GetSubmission[r].ID = r
      BY DEF CopiesInv, StoredAsSent, GetSubmission
    <2>2. DOMAIN GetSubmission = DOMAIN reviews
      BY DEF GetSubmission
    <2>3. QED
      BY <1>1, <2>1, <2>2
  <1>4. Held(t)'
    BY <1>2, <1>3 DEF Held
  <1>5. QED
    BY <1>1, <1>2, <1>4, QuietCopies DEF Load

\* The criteria of one more benchmark are read.
LEMMA ReadCopies ==
  ASSUME IInv, CopiesInv, NEW t \in Teachers, ReadCriteria(t)
  PROVE  Kept /\ CopiesInv'
  <1>1. PICK b \in job[t].toRead :
            Goto(t, [job[t] EXCEPT !.toRead = @ \ {b},
                        !.read = Over([id \in {b} |->
                            IF b \in DOMAIN benchmarks THEN benchmarks[b].Criteria ELSE None], @)])
    BY Zenon DEF ReadCriteria
  <1> DEFINE c == IF b \in DOMAIN benchmarks THEN benchmarks[b].Criteria ELSE None
             one == [id \in {b} |-> c]
             j == [job[t] EXCEPT !.toRead = @ \ {b}, !.read = Over(one, @)]
  <1>2. Goto(t, j)
    BY <1>1
  <1>3. j.at = "criteria" /\ (j.read = Over(one, job[t].read) \/ j.read = job[t].read)
    BY DEF ReadCriteria, At
  <1>4. IsFiniteSet(DOMAIN job[t].read) /\ IsFiniteSet(DOMAIN one)
    <2>1. DOMAIN one = {b}
      OBVIOUS
    <2>2. QED
      BY <2>1, FS_Singleton DEF ReadCriteria, At, CopiesInv, Held
  <1> HIDE DEF one
  <1>5. DOMAIN Over(one, job[t].read) = DOMAIN one \union DOMAIN job[t].read
    BY DEF Over
  <1>6. IsFiniteSet(DOMAIN j.read)
    <2>1. IsFiniteSet(DOMAIN one \union DOMAIN job[t].read)
      BY <1>4, FS_Union
    <2>2. QED
      BY <1>3, <1>4, <1>5, <2>1
  <1> HIDE DEF j
  <1>7. job'[t] = j /\ \A u \in Teachers \ {t} : job'[u] = job[u]
    BY <1>2, GoesOn
  <1>8. browser' = browser /\ sent' = sent /\ BrowserType'
    BY DEF ReadCriteria, CopiesInv, BrowserType
  <1>9. Held(t)'
    BY <1>3, <1>6, <1>7, <1>8 DEF CopiesInv, Held
  <1>10. QED
    BY <1>7, <1>8, <1>9, QuietCopies DEF ReadCriteria

\* A copy with another grade in it is whole.
LEMMA EditedWhole ==
  ASSUME NEW old, Whole(old), NEW b \in DOMAIN old.GradingBenchmarks, NEW c, NEW g
  PROVE  Whole(ComputeScore([old EXCEPT !.GradingBenchmarks[b][c] = g]))
  <1> DEFINE edited == [old EXCEPT !.GradingBenchmarks[b][c] = g]
             bms == [old.GradingBenchmarks EXCEPT ![b] = [@ EXCEPT ![c] = g]]
             own == Own(old.ID)
  <1>1. /\ old = [ID |-> old.ID, ReviewerID |-> old.ReviewerID, Score |-> old.Score,
                  GradingBenchmarks |-> [x \in own |-> old.GradingBenchmarks[x]]]
        /\ \A x \in own : DOMAIN old.GradingBenchmarks[x] = DOMAIN benchmarks[x].Criteria
        /\ old.ID \in DOMAIN reviews
    BY DEF Whole
  <1> HIDE DEF own
  <1>2. old.GradingBenchmarks = [x \in own |-> old.GradingBenchmarks[x]]
    BY <1>1
  <1>3. edited = [old EXCEPT !.GradingBenchmarks = bms]
    OBVIOUS
  <1>4. /\ DOMAIN bms = own /\ bms = [x \in own |-> bms[x]]
        /\ \A x \in own : DOMAIN bms[x] = DOMAIN benchmarks[x].Criteria
    BY <1>1, <1>2
  <1> HIDE DEF edited, bms
  <1>5. edited = [ID |-> old.ID, ReviewerID |-> old.ReviewerID, Score |-> old.Score,
                  GradingBenchmarks |-> bms]
    BY <1>1, <1>3
  <1>6. PICK s : ComputeScore(edited) = [edited EXCEPT !.Score = s]
    BY DEF ComputeScore
  <1> DEFINE review == ComputeScore(edited)
  <1>7. review = [ID |-> old.ID, ReviewerID |-> old.ReviewerID, Score |-> s,
                  GradingBenchmarks |-> bms]
    BY <1>5, <1>6
  <1> HIDE DEF review
  <1>8. /\ review.ID = old.ID
        /\ review = [ID |-> review.ID, ReviewerID |-> review.ReviewerID, Score |-> review.Score,
                     GradingBenchmarks |-> bms]
        /\ review.GradingBenchmarks = bms
    BY <1>7
  <1>9. Whole(review)
    BY <1>1, <1>4, <1>8 DEF Whole, own
  <1>10. QED
    BY <1>9 DEF review, edited

\* A browser sends its copy, with another grade in it.
LEMMA UpdateCopies ==
  ASSUME IInv, CopiesInv, NEW t \in Teachers, UpdateReview(t)
  PROVE  Kept /\ CopiesInv'
  <1>1. PICK review, subm :
           /\ Goto(t, [at |-> "save", review |-> review, subm |-> subm])
           /\ subm = GetSubmission /\ sent' = sent \union {review} /\ Whole(review)
    <2>1. PICK r \in DOMAIN browser[t] : \E b \in DOMAIN browser[t][r].GradingBenchmarks :
             \E c \in DOMAIN browser[t][r].GradingBenchmarks[b] : \E g \in Grades \ {"NONE"} :
               LET review == ComputeScore([browser[t][r] EXCEPT !.GradingBenchmarks[b][c] = g]) IN
               /\ Goto(t, [at |-> "save", review |-> review, subm |-> GetSubmission])
               /\ sent' = sent \union {review}
      BY Zenon DEF UpdateReview
    <2>2. Whole(browser[t][r])
      BY DEF CopiesInv, Held
    <2>3. PICK b \in DOMAIN browser[t][r].GradingBenchmarks : \E c, g :
               LET review == ComputeScore([browser[t][r] EXCEPT !.GradingBenchmarks[b][c] = g]) IN
               /\ Goto(t, [at |-> "save", review |-> review, subm |-> GetSubmission])
               /\ sent' = sent \union {review}
      BY <2>1, Zenon
    <2>4. \A c, g : Whole(ComputeScore([browser[t][r] EXCEPT !.GradingBenchmarks[b][c] = g]))
      BY <2>2, EditedWhole
    <2>5. QED
      BY <2>3, <2>4
  <1>2. Whole(review)'
    BY <1>1 DEF Whole, Own, UpdateReview
  <1>3. /\ job'[t] = [at |-> "save", review |-> review, subm |-> subm]
        /\ \A u \in Teachers \ {t} : job'[u] = job[u]
    BY <1>1, GoesOn
  <1>4. browser' = browser /\ BrowserType'
    BY DEF UpdateReview, CopiesInv, BrowserType
  <1>5. \A q \in DOMAIN subm : subm[q] \in sent /\ subm[q].ID = q
    BY <1>1 DEF GetSubmission, CopiesInv, StoredAsSent
  <1>6. Held(t)'
    BY <1>1, <1>3, <1>4, <1>5 DEF CopiesInv, Held
  <1>7. \A x \in sent' \ sent : Whole(x)'
    BY <1>1, <1>2 DEF Whole, Own
  <1>8. QED
    BY <1>1, <1>3, <1>4, <1>6, <1>7, QuietCopies DEF UpdateReview

\* The copy is saved, with the other reviews as the request has read them.
LEMMA SaveReviewCopies ==
  ASSUME IInv, CopiesInv, NEW t \in Teachers, SaveReview(t)
  PROVE  Kept /\ CopiesInv'
  <1> DEFINE review == job[t].review
             subm == Replace(job[t].subm, review)
             held == [r \in {review.ID} |-> review]
  <1>1. /\ job[t].at = "save" /\ SaveSubmission(subm) /\ Goto(t, Idle)
        /\ browser' = [browser EXCEPT ![t] = Over(held, browser[t])]
        /\ UNCHANGED <<status, lastID, edits, sent>>
    BY DEF SaveReview, At
  <1>2. /\ review \in sent /\ DOMAIN job[t].subm \subseteq DOMAIN reviews
        /\ \A r \in DOMAIN job[t].subm : job[t].subm[r] \in sent /\ job[t].subm[r].ID = r
    BY <1>1 DEF CopiesInv, Held, IInv, CopyInv
  <1>3. /\ DOMAIN subm = DOMAIN job[t].subm
        /\ \A r \in DOMAIN subm : subm[r] \in sent /\ subm[r].ID = r
    BY <1>2 DEF Replace
  <1> HIDE DEF subm
  <1>4. Kept /\ TableInv' /\ StoredAsSent' /\ DOMAIN reviews' = DOMAIN reviews
    BY <1>1, <1>2, <1>3, SaveSubmissionKeeps
  <1>5. DOMAIN held = {review.ID} /\ held[review.ID] = review
    OBVIOUS
  <1> HIDE DEF held
  <1>6. /\ BrowserType' /\ browser'[t] = Over(held, browser[t])
        /\ \A u \in Teachers \ {t} : browser'[u] = browser[u]
    BY <1>1 DEF CopiesInv, BrowserType
  <1>7. job'[t] = Idle /\ \A u \in Teachers \ {t} : job'[u] = job[u]
    BY <1>1, GoesOn
  <1>8. Held(t)'
    <2>1. DOMAIN browser'[t] = DOMAIN held \union DOMAIN browser[t]
      BY <1>6 DEF Over
    <2>2. \A r \in DOMAIN held : browser'[t][r] = held[r]
      BY <1>6 DEF Over
    <2>3. \A r \in DOMAIN browser[t] : r \notin DOMAIN held => browser'[t][r] = browser[t][r]
      BY <1>6 DEF Over
    <2>4. \A r \in DOMAIN browser[t] : browser[t][r] \in sent /\ browser[t][r].ID = r
      BY DEF CopiesInv, Held
    <2>5. \A r \in DOMAIN browser'[t] : browser'[t][r] \in sent' /\ browser'[t][r].ID = r
      BY <1>1, <1>2, <1>5, <2>1, <2>2, <2>3, <2>4
    <2>6. job'[t].at = "idle"
      BY <1>7 DEF Idle
    <2>7. QED
      BY <2>5, <2>6 DEF Held
  <1>9. \A u \in Teachers : Held(u)'
    BY <1>1, <1>6, <1>7, <1>8, OthersHold
  <1>10. QED
    BY <1>1, <1>4, <1>6, <1>9, PartsSuffice

\* The grade is saved, with the reviews as the request has read them.
LEMMA SaveGradeCopies ==
  ASSUME IInv, CopiesInv, NEW t \in Teachers, SaveGrade(t)
  PROVE  Kept /\ CopiesInv'
  <1>1. /\ job[t].at = "grade" /\ SaveSubmission(job[t].subm) /\ Goto(t, Idle)
        /\ UNCHANGED <<browser, lastID, edits, sent>>
    BY DEF SaveGrade, At
  <1>2. /\ DOMAIN job[t].subm \subseteq DOMAIN reviews
        /\ \A r \in DOMAIN job[t].subm : job[t].subm[r] \in sent /\ job[t].subm[r].ID = r
    BY <1>1 DEF CopiesInv, Held, IInv, CopyInv
  <1>3. Kept /\ TableInv' /\ StoredAsSent' /\ DOMAIN reviews' = DOMAIN reviews
    BY <1>1, <1>2, SaveSubmissionKeeps
  <1>4. job'[t] = Idle /\ \A u \in Teachers \ {t} : job'[u] = job[u]
    BY <1>1, GoesOn
  <1>5. Held(t)' /\ BrowserType'
    BY <1>1, <1>4 DEF CopiesInv, Held, Idle, BrowserType
  <1>6. \A u \in Teachers : Held(u)'
    BY <1>1, <1>4, <1>5, OthersHold
  <1>7. QED
    BY <1>1, <1>3, <1>5, <1>6, PartsSuffice

\* The first benchmarks are the assignment's.
LEMMA InitCopies == Init => CopiesInv
  <1> SUFFICES ASSUME Init PROVE CopiesInv
    OBVIOUS
  <1>1. PICK v \in Versions : benchmarks = NewRows(v, 0) /\ lastID = Cardinality(v)
    BY DEF Init
  <1>2. Cardinality(v) \in Nat /\ Len(SetToSeq(v)) = Cardinality(v)
    BY VersionsAssumption, SetToSeqLength
  <1>3. DOMAIN benchmarks = 1..lastID /\ \A b \in DOMAIN benchmarks : benchmarks[b].ReviewID = 0
    BY <1>1, <1>2 DEF NewRows
  <1>4. TableInv
    BY <1>1, <1>2, <1>3 DEF TableInv
  <1>5. DOMAIN reviews = {} /\ sent = {} /\ BrowserType
    BY DEF Init, None, BrowserType
  <1>6. \A t \in Teachers : DOMAIN browser[t] = {} /\ job[t].at = "idle"
    BY DEF Init, None, Idle
  <1>7. QED
    BY <1>4, <1>5, <1>6 DEF CopiesInv, StoredAsSent, Held

\* Every step keeps what the reviews have in them.
LEMMA CopiesStep == IInv /\ CopiesInv /\ [Next]_vars => Kept /\ CopiesInv'
  <1> SUFFICES ASSUME IInv, CopiesInv, [Next]_vars PROVE Kept /\ CopiesInv'
    OBVIOUS
  <1>1. ASSUME NEW t \in Teachers, Request(t) PROVE Kept /\ CopiesInv'
    <2>1. ASSUME NEW j, Goto(t, j), j.at \in {"idle", "benchmarks"},
                 UNCHANGED <<benchmarks, reviews, browser, lastID, sent>>
          PROVE  Kept /\ CopiesInv'
      <3>1. job'[t] = j /\ \A u \in Teachers \ {t} : job'[u] = job[u]
        BY <2>1, GoesOn
      <3>2. Held(t)' /\ BrowserType'
        BY <2>1, <3>1 DEF CopiesInv, Held, BrowserType
      <3>3. QED
        BY <2>1, <3>1, <3>2, QuietCopies
    <2>2. CASE CreateReview(t)
      BY <2>1, <2>2 DEF CreateReview
    <2>3. CASE ReadBenchmarks(t)
      <3>1. job'[t] = [at |-> "criteria", toRead |-> GetBenchmarks(benchmarks), read |-> None]
            /\ \A u \in Teachers \ {t} : job'[u] = job[u]
        BY <2>3, GoesOn DEF ReadBenchmarks
      <3>2. IsFiniteSet(DOMAIN job'[t].read)
        <4>1. DOMAIN job'[t].read = {}
          BY <3>1 DEF None
        <4>2. QED
          BY <4>1, FS_EmptySet
      <3>3. Held(t)' /\ BrowserType'
        BY <2>3, <3>1, <3>2 DEF ReadBenchmarks, CopiesInv, Held, BrowserType
      <3>4. QED
        BY <2>3, <3>1, <3>3, QuietCopies DEF ReadBenchmarks
    <2>4. CASE UpdateSubmission(t)
      <3>1. job'[t] = [at |-> "grade", score |-> score, subm |-> GetSubmission]
            /\ \A u \in Teachers \ {t} : job'[u] = job[u]
        BY <2>4, GoesOn DEF UpdateSubmission
      <3>2. \A q \in DOMAIN GetSubmission : GetSubmission[q] \in sent /\ GetSubmission[q].ID = q
        BY DEF GetSubmission, CopiesInv, StoredAsSent
      <3>3. Held(t)' /\ BrowserType'
        BY <2>4, <3>1, <3>2 DEF UpdateSubmission, CopiesInv, Held, BrowserType
      <3>4. QED
        BY <2>4, <3>1, <3>3, QuietCopies DEF UpdateSubmission
    <2>5. QED
      BY <1>1, <2>2, <2>3, <2>4, LoadCopies, ReadCopies, InsertKeeps, UpdateCopies,
         SaveReviewCopies, SaveGradeCopies DEF Request
  <1>2. CASE updateGradingCriteria
    BY <1>2, CriteriaKeep
  <1>3. CASE UNCHANGED vars
    <2>1. Kept /\ TableInv' /\ StoredAsSent'
      BY <1>3, TablesStay DEF vars
    <2>2. BrowserType' /\ \A t \in Teachers : Held(t)'
      BY <1>3 DEF vars, CopiesInv, BrowserType, Held
    <2>3. QED
      BY <1>3, <2>1, <2>2, PartsSuffice DEF vars
  <1>4. QED
    BY <1>1, <1>2, <1>3 DEF Next

\* For any overlap of requests that save all reviews of the submission from the
\* copies that they hold: each review in the database is, with its score, one that
\* was sent or answered as a whole (UpdateReview, UpdateSubmission).
THEOREM ReviewsWhole == Spec => []StoredAsSent
  <1>1. CopiesInv => StoredAsSent
    BY DEF CopiesInv
  <1>2. IInv /\ CopiesInv /\ [Next]_vars => CopiesInv'
    BY CopiesStep
  <1>3. QED
    BY <1>1, <1>2, InitIInv, InitCopies, IInvStep, PTL DEF Spec

\* A review keeps its benchmarks and their criteria from its creation on, whatever
\* old copy is saved and whenever the assignment gets others (updateGradingCriteria).
THEOREM ReviewsCriteria == Spec => ReviewsKeepCriteria
  <1>1. IInv /\ CopiesInv /\ [Next]_vars =>
          [\A r \in DOMAIN reviews :
            LET before == CriteriaOf(benchmarks, r) now == CriteriaOf(benchmarks', r) IN
            /\ DOMAIN now = DOMAIN before
            /\ \A b \in DOMAIN now : DOMAIN now[b] = DOMAIN before[b]]_vars
    <2> SUFFICES ASSUME IInv, CopiesInv, [Next]_vars, NEW r \in DOMAIN reviews
                 PROVE  LET before == CriteriaOf(benchmarks, r) now == CriteriaOf(benchmarks', r) IN
                        /\ DOMAIN now = DOMAIN before
                        /\ \A b \in DOMAIN now : DOMAIN now[b] = DOMAIN before[b]
      OBVIOUS
    <2>1. /\ Own(r)' = Own(r)
          /\ \A b \in Own(r) : DOMAIN benchmarks'[b].Criteria = DOMAIN benchmarks[b].Criteria
      BY CopiesStep DEF Kept
    <2>2. /\ CriteriaOf(benchmarks, r) = [b \in Own(r) |-> benchmarks[b].Criteria]
          /\ CriteriaOf(benchmarks', r) = [b \in Own(r)' |-> benchmarks'[b].Criteria]
      BY DEF CriteriaOf, Own
    <2>3. QED
      BY <2>1, <2>2
  <1>2. IInv /\ CopiesInv /\ [Next]_vars => CopiesInv'
    BY CopiesStep
  <1>3. QED
    BY <1>1, <1>2, InitIInv, InitCopies, IInvStep, PTL DEF Spec, ReviewsKeepCriteria
=============================================================================
